---- MODULE Spec2Model ----
(***************************************************************************)
(* Verification model of the omio-backend response cache.                  *)
(*                                                                         *)
(* Two server programs share the cache design:                             *)
(*   - src/server.js (the two-provider API): an LRUCache bounded by item   *)
(*     count and TTL only, wrapped by getFromCache / setInCache;           *)
(*   - src/migrateomio.js, lines 1147-1723 (the single-provider API): an   *)
(*     LRUCache bounded by item count, byte size and TTL, with a dispose   *)
(*     callback that keeps cacheStats.                                     *)
(* The LRUCache class is the npm package lru-cache (named export, v10):    *)
(* its get/set/evict/delete are modelled here as operators over a cache    *)
(* record, following the package's documented algorithm.                   *)
(*                                                                         *)
(* Time is counted in milliseconds.  Byte sizes and the item ceiling are   *)
(* scaled down; the scaled ceilings are listed as bounds of the model.     *)
(***************************************************************************)
EXTENDS Integers, Sequences, FiniteSets, TLC

\* --------------------------------------------------------------- constants
THB_TO_INR == 232       \* conversion rate 2.32, in hundredths
CACHE_DURATION == 300000 \* default ttl, ms (5 * 60 * 1000)
FILTERS_TTL == 3600000   \* ttl argument passed by /api/filters, ms
COMBINED_TTL == 60000    \* ttl argument passed by /api/combined-trips, ms

\* ------------------------------------------------------------------ bounds
MAX_CACHE_ITEMS == 2     \* item ceiling (50 in the source), scaled
MAX_CACHE_SIZE == 12     \* byte ceiling (20 MB in the source), scaled
TickStep == CACHE_DURATION \div 2   \* the clock advances in steps of half the default ttl
MaxTicks == 3            \* and stops after this many steps
MaxCalls == 4            \* handler invocations explored per behaviour
MaxInflight == 2         \* concurrent requests awaiting the database
MaxUnitCalls == 3        \* direct calls of getFromCache / setInCache explored
MaxMigrateCalls == 3     \* requests to the single-provider API explored
MaxKeyCalls == 2         \* requests to /api/combined-trips explored with real keys
MaxEndpointCalls == 3    \* requests explored across all cached endpoints
MaxTripCalls == 1        \* requests to /api/combined-trips explored with their queries
MaxDateCalls == 1        \* requests to /api/filter/date explored, the earliest ones
BATCH_SIZE == 2          \* records per INSERT (400 in the source), scaled
MaxRecords == 3          \* records in the file an import script reads
MaxRouteCalls == 2       \* requests to the five uncached trips endpoints explored

\* ------------------------------------------------------------- JS values
\* A JavaScript value as far as the cache looks at it: what JSON.stringify
\* does with it (kind), the byte length of the resulting text (len), and a
\* tag telling response payloads apart (ver).
JsUndefined == [kind |-> "undefined", len |-> 0, ver |-> 0]
JsString(n) == [kind |-> "string", len |-> n, ver |-> 0]
JsObject(n, v) == [kind |-> "json", len |-> n, ver |-> v]
JsCircular == [kind |-> "circular", len |-> 0, ver |-> 0]
JsFunction == [kind |-> "function", len |-> 0, ver |-> 0]

VARIABLES
  program,      \* which server is running: "server" or "migrate"
  lruCache,     \* the LRUCache instance
  cacheStats,   \* the cacheStats object
  now,          \* the clock read by the cache (perf.now), ms
  inflight,     \* per key: requests that missed and await their query
  calls,        \* requests received so far
  recency,      \* history: keys by their last access (get hit or set), oldest first
  last          \* observation: outcome of the latest step

vars == <<program, lruCache, cacheStats, now, inflight, calls, recency, last>>

\* ---------------------------------------------------------------- lru-cache
\* keyList runs from the head (least recently used) to the tail (most
\* recently used); the maps are defined on the keys held.
EmptyCache ==
  [keyList |-> <<>>, valList |-> <<>>, starts |-> <<>>, ttls |-> <<>>,
   sizes |-> <<>>, calculatedSize |-> 0]

Held(c) == {c.keyList[i] : i \in 1..Len(c.keyList)}

MapWith(f, k, v) == [x \in (DOMAIN f) \cup {k} |-> IF x = k THEN v ELSE f[x]]

MapWithout(f, k) == [x \in (DOMAIN f) \ {k} |-> f[x]]

SeqWithout(s, k) == SelectSeq(s, LAMBDA x : x # k)

\* (mutant) the elapsed time is computed the wrong way round
isStaleReversed(c, k, t) ==
  /\ c.ttls[k] # 0
  /\ c.starts[k] # 0
  /\ c.starts[k] - t > c.ttls[k]

\* (mutant) every entry that has a ttl is stale
isStaleAlways(c, k, t) == c.ttls[k] # 0

\* #isStale: an entry is stale once more than its ttl has elapsed.
isStale(c, k, t) ==
  /\ c.ttls[k] # 0
  /\ c.starts[k] # 0
  /\ t - c.starts[k] > c.ttls[k]

\* (mutant) an access leaves the order as it was
moveToTailSkipped(c, k) == c

\* #moveToTail
moveToTail(c, k) == [c EXCEPT !.keyList = Append(SeqWithout(c.keyList, k), k)]

\* Unlinks k and gives back its size; the caller reports the disposal.
Unlink(c, k) ==
  [keyList |-> SeqWithout(c.keyList, k),
   valList |-> MapWithout(c.valList, k),
   starts |-> MapWithout(c.starts, k),
   ttls |-> MapWithout(c.ttls, k),
   sizes |-> MapWithout(c.sizes, k),
   calculatedSize |-> c.calculatedSize - c.sizes[k]]

Disposal(c, k, why) == [value |-> c.valList[k], key |-> k, reason |-> why]

\* #delete(k, reason): a result is [cache, disposed, ...].
LruDelete(c, k, why) ==
  IF k \in Held(c)
    THEN [cache |-> Unlink(c, k), disposed |-> <<Disposal(c, k, why)>>]
    ELSE [cache |-> c, disposed |-> <<>>]

\* #evict: removes the head.
LruEvict(c) ==
  [cache |-> Unlink(c, Head(c.keyList)),
   disposed |-> <<Disposal(c, Head(c.keyList), "evict")>>]

\* the loop of #addItemSize: evict heads while the tracked size is over limit
RECURSIVE EvictWhileOver(_, _)
EvictWhileOver(c, limit) ==
  IF c.calculatedSize > limit /\ c.keyList # <<>>
    THEN LET e == LruEvict(c)
             r == EvictWhileOver(e.cache, limit)
         IN [cache |-> r.cache, disposed |-> e.disposed \o r.disposed]
    ELSE [cache |-> c, disposed |-> <<>>]

\* get(k): undefined for an absent key; a stale entry is deleted on this
\* access and undefined returned (allowStale false); otherwise the entry
\* moves to the tail and its value is returned (updateAgeOnGet false).
LruGet(c, k, t) ==
  IF k \notin Held(c)
    THEN [cache |-> c, ret |-> JsUndefined, disposed |-> <<>>]
  ELSE IF isStale(c, k, t)
    THEN LET d == LruDelete(c, k, "expire")
         IN [cache |-> d.cache, ret |-> JsUndefined, disposed |-> d.disposed]
  ELSE [cache |-> moveToTail(c, k), ret |-> c.valList[k], disposed |-> <<>>]

\* Options of the two LRUCache instances.
ServerOptions ==
  [max |-> MAX_CACHE_ITEMS, maxSize |-> 0, ttl |-> CACHE_DURATION,
   noDisposeOnSet |-> FALSE]

\* (mutant) noDisposeOnSet left at its default
MigrateOptionsDisposeOnSet ==
  [max |-> MAX_CACHE_ITEMS, maxSize |-> MAX_CACHE_SIZE, ttl |-> CACHE_DURATION,
   noDisposeOnSet |-> FALSE]

MigrateOptions ==
  [max |-> MAX_CACHE_ITEMS, maxSize |-> MAX_CACHE_SIZE, ttl |-> CACHE_DURATION,
   noDisposeOnSet |-> TRUE]

\* (mutant) the item ceiling is not looked at
LruAddUnbounded(c, opt, k, v, size) ==
  LET linked == [c EXCEPT !.keyList = Append(@, k),
                          !.valList = MapWith(@, k, v),
                          !.sizes = MapWith(@, k, size)]
      r == IF opt.maxSize # 0
             THEN EvictWhileOver(linked, opt.maxSize - size)
             ELSE [cache |-> linked, disposed |-> <<>>]
  IN [cache |-> [r.cache EXCEPT !.calculatedSize = @ + size],
      disposed |-> r.disposed]

\* Links a new key at the tail, evicting the head first when the cache holds
\* max entries, then makes room for its size.
LruAdd(c, opt, k, v, size) ==
  LET e == IF Len(c.keyList) = opt.max
             THEN LruEvict(c) ELSE [cache |-> c, disposed |-> <<>>]
      linked == [e.cache EXCEPT !.keyList = Append(@, k),
                                !.valList = MapWith(@, k, v),
                                !.sizes = MapWith(@, k, size)]
      r == IF opt.maxSize # 0
             THEN EvictWhileOver(linked, opt.maxSize - size)
             ELSE [cache |-> linked, disposed |-> <<>>]
  IN [cache |-> [r.cache EXCEPT !.calculatedSize = @ + size],
      disposed |-> e.disposed \o r.disposed]

\* Replaces the value of a key already held: the entry moves to the tail,
\* the old value is disposed unless noDisposeOnSet, the size is re-added.
LruUpdate(c, opt, k, v, size) ==
  LET moved == moveToTail(c, k)
      old == IF opt.noDisposeOnSet THEN <<>> ELSE <<Disposal(c, k, "set")>>
      removed == [moved EXCEPT !.calculatedSize = @ - c.sizes[k],
                               !.sizes = MapWith(@, k, size),
                               !.valList = MapWith(@, k, v)]
      r == IF opt.maxSize # 0
             THEN EvictWhileOver(removed, opt.maxSize - size)
             ELSE [cache |-> removed, disposed |-> <<>>]
  IN [cache |-> [r.cache EXCEPT !.calculatedSize = @ + size],
      disposed |-> old \o r.disposed]

\* #setItemTTL
setItemTTL(c, k, ttl, t) ==
  [c EXCEPT !.starts = MapWith(@, k, IF ttl # 0 THEN t ELSE 0),
            !.ttls = MapWith(@, k, ttl)]

\* set(k, v) with no per-call options: size is what sizeCalculation gave
\* (0 when the cache tracks no sizes).  With size tracking a size that is
\* not a positive integer throws; an entry larger than maxSize is not
\* stored and any entry under that key is deleted.
LruSet(c, opt, k, v, size, t) ==
  IF opt.maxSize # 0 /\ size <= 0
    THEN [cache |-> c, disposed |-> <<>>, threw |-> TRUE]
  ELSE IF opt.maxSize # 0 /\ size > opt.maxSize
    THEN LET d == LruDelete(c, k, "set")
         IN [cache |-> d.cache, disposed |-> d.disposed, threw |-> FALSE]
  ELSE LET r == IF k \in Held(c) THEN LruUpdate(c, opt, k, v, size)
                                 ELSE LruAdd(c, opt, k, v, size)
       IN [cache |-> setItemTTL(r.cache, k, opt.ttl, t),
           disposed |-> r.disposed, threw |-> FALSE]

\* ------------------------------------------------------------ src/server.js
\* Cache keys of server.js: 'transport_types', 'filters_data', and one
\* combined_trips_{...} key per filter spec (NumSpecs of them, so that the
\* keys outnumber the item ceiling by one).
NumSpecs == MAX_CACHE_ITEMS - 1

ServerKeys ==
  {<<"transport_types", 0>>, <<"filters_data", 0>>}
    \cup {<<"combined_trips", i>> : i \in 1..NumSpecs}

\* Response payloads: the database may answer differently over time.
Responses == {JsObject(2, 1)}

\* What /api/combined-trips builds when both provider queries failed.
EmptyCombined == JsObject(2, 0)

\* The third argument the call sites hand to setInCache (0: none).
ttlArgument(k) ==
  CASE k[1] = "filters_data" -> FILTERS_TTL
    [] k[1] = "combined_trips" -> COMBINED_TTL
    [] OTHER -> 0

\* (mutant) the move of the entry to the most recent place is lost
getFromCacheOrderLost(c, stats, key, t) ==
  LET g == LruGet(c, key, t)
  IN [cache |-> IF g.ret.kind # "undefined" THEN c ELSE g.cache,
      stats |-> IF g.ret.kind # "undefined"
                  THEN [stats EXCEPT !.hits = @ + 1]
                  ELSE [stats EXCEPT !.misses = @ + 1],
      ret |-> g.ret]

\* getFromCache(key) of server.js
getFromCache(c, stats, key, t) ==
  LET g == LruGet(c, key, t)
  IN [cache |-> g.cache,
      stats |-> IF g.ret.kind # "undefined"
                  THEN [stats EXCEPT !.hits = @ + 1]
                  ELSE [stats EXCEPT !.misses = @ + 1],
      ret |-> g.ret]

\* setInCache(key, value) of server.js.  The function declares two
\* parameters: a third argument of a call (extra) is bound to nothing.
setInCache(c, stats, key, value, extra, t) ==
  LET s == LruSet(c, ServerOptions, key, value, 0, t)
  IN [cache |-> s.cache,
      stats |-> MapWith(stats, "currentSize", Len(s.cache.keyList))]

\* History: key k was accessed now; keys no longer held are forgotten.
Touched(r, k, held) ==
  SelectSeq(Append(SeqWithout(r, k), k), LAMBDA x : x \in held)

Forgotten(r, held) == SelectSeq(r, LAMBDA x : x \in held)

RECURSIVE Total(_, _)
Total(f, S) ==
  IF S = {} THEN 0
  ELSE LET x == CHOOSE y \in S : TRUE IN f[x] + Total(f, S \ {x})

Awaiting == Total(inflight, DOMAIN inflight)

ServerInit ==
  /\ program = "server"
  /\ lruCache = EmptyCache
  /\ cacheStats = [hits |-> 0, misses |-> 0]
  /\ now = 1
  /\ inflight = [k \in ServerKeys |-> 0]
  /\ calls = 0
  /\ recency = <<>>
  /\ last = [op |-> "init", key |-> <<"", 0>>, ret |-> JsUndefined,
             removed |-> {}]

\* Time passes; nothing sweeps the cache.
Tick ==
  /\ now + TickStep <= 1 + MaxTicks * TickStep
  /\ now' = now + TickStep
  /\ UNCHANGED <<program, lruCache, cacheStats, inflight, calls, recency, last>>

\* A cached endpoint up to its first await: the key is looked up; a hit is
\* answered from the cache, a miss goes on to query the database.
ServerLookup(k) ==
  /\ program = "server"
  /\ calls < MaxCalls
  /\ LET g == getFromCache(lruCache, cacheStats, k, now)
         hit == g.ret.kind # "undefined"
     IN /\ lruCache' = g.cache
        /\ cacheStats' = g.stats
        /\ hit \/ Awaiting < MaxInflight
        /\ inflight' = IF hit THEN inflight ELSE [inflight EXCEPT ![k] = @ + 1]
        /\ recency' = IF hit THEN Touched(recency, k, Held(g.cache))
                              ELSE Forgotten(recency, Held(g.cache))
        /\ last' = [op |-> "lookup", key |-> k, ret |-> g.ret,
                    removed |-> Held(lruCache) \ Held(g.cache)]
  /\ calls' = calls + 1
  /\ UNCHANGED <<program, now>>

\* The rest of the handler after a successful query: the response is
\* stored under the key and sent.
ServerStore(k, v) ==
  /\ program = "server"
  /\ inflight[k] > 0
  /\ LET s == setInCache(lruCache, cacheStats, k, v, ttlArgument(k), now)
     IN /\ lruCache' = s.cache
        /\ cacheStats' = s.stats
        /\ last' = [op |-> "store", key |-> k, ret |-> v,
                    removed |-> Held(lruCache) \ Held(s.cache)]
        /\ recency' = Touched(recency, k, Held(s.cache))
  /\ inflight' = [inflight EXCEPT ![k] = @ - 1]
  /\ UNCHANGED <<program, now, calls>>

\* The rest of the handler after a failed query: the catch block answers
\* 500 and the cache is not written.  (/api/combined-trips catches each
\* provider's failure itself and stores what is left: see ServerStore with
\* EmptyCombined.)
ServerFail(k) ==
  /\ program = "server"
  /\ inflight[k] > 0
  /\ k[1] # "combined_trips"
  /\ inflight' = [inflight EXCEPT ![k] = @ - 1]
  /\ last' = [op |-> "fail", key |-> k, ret |-> JsUndefined, removed |-> {}]
  /\ UNCHANGED <<program, lruCache, cacheStats, now, calls, recency>>

ServerNext ==
  \/ Tick /\ program = "server"
  \/ \E k \in ServerKeys : ServerLookup(k)
  \/ \E k \in ServerKeys : \E v \in Responses : ServerStore(k, v)
  \/ \E i \in 1..NumSpecs : ServerStore(<<"combined_trips", i>>, EmptyCombined)
  \/ \E k \in ServerKeys : ServerFail(k)

ServerSpec == ServerInit /\ [][ServerNext]_vars

\* ------------------------------------------- src/migrateomio.js, 1147-1723
\* Cache keys of the single-provider API: 'allTrips', 'destinations', and
\* one routeStats:{...} key per parameter set.
MigrateKeys ==
  {<<"allTrips", 0>>, <<"destinations", 0>>}
    \cup {<<"routeStats", i>> : i \in 1..NumSpecs}

\* The key as the JS string the cache sees (byte lengths are scaled: every
\* key counts one byte).
KeyString(k) == JsString(1)

\* Payloads by serialized size: one that leaves room for others, one that
\* leaves room for no other, one that alone exceeds the byte budget.  The
\* whole trips table may be any of them; the list of destinations and a
\* route summary that passes the limit below are small.
Small == JsObject(2, 1)
Big == JsObject(MAX_CACHE_SIZE - 3, 1)
Huge == JsObject(MAX_CACHE_SIZE, 1)

\* /api/stats/routes caches a result only if its text is shorter than this
\* (1 MB against the 20 MB budget in the source; scaled).
RouteStatsLimit == MAX_CACHE_SIZE \div 2

\* safeStringify(obj): a string is returned as is; otherwise JSON.stringify,
\* whose exception (a circular structure) is caught and replaced by the
\* text 'error' (5 bytes); JSON.stringify of a function is undefined.
safeStringify(obj) ==
  CASE obj.kind = "string" -> obj
    [] obj.kind = "json" -> JsString(obj.len)
    [] obj.kind = "circular" -> JsString(5)
    [] OTHER -> JsUndefined

\* calculateSize(value, key): the byte lengths of the two texts; 0 when
\* Buffer.byteLength throws (an argument that is not a string).
calculateSize(value, key) ==
  LET keyStr == safeStringify(key)
      valueStr == safeStringify(value)
  IN IF keyStr.kind = "string" /\ valueStr.kind = "string"
       THEN valueStr.len + keyStr.len
       ELSE 0

\* The dispose option, declared (key, value) => ...
dispose(stats, key, value, t) ==
  LET size == calculateSize(value, key)
  IN [stats EXCEPT !.evictions = @ + 1,
                   !.lastEviction = t,
                   !.currentSize = IF @ - size > 0 THEN @ - size ELSE 0]

\* lru-cache calls dispose(value, key, reason) for every entry it removes.
RECURSIVE Disposed(_, _, _)
Disposed(stats, d, t) ==
  IF d = <<>> THEN stats
  ELSE Disposed(dispose(stats, Head(d).value, KeyString(Head(d).key), t),
                Tail(d), t)

\* lruCache.get(key) on the migrateomio.js instance
migrateGet(c, stats, key, t) ==
  LET g == LruGet(c, key, t)
  IN [cache |-> g.cache, stats |-> Disposed(stats, g.disposed, t),
      ret |-> g.ret]

\* lruCache.set(key, value) on the migrateomio.js instance; the size comes
\* from the sizeCalculation option.
migrateSet(c, stats, key, value, t) ==
  LET s == LruSet(c, MigrateOptions, key, value,
                  calculateSize(value, KeyString(key)), t)
  IN [cache |-> s.cache, stats |-> Disposed(stats, s.disposed, t),
      threw |-> s.threw]

\* getFromCache(key) of migrateomio.js
migrateGetFromCache(c, stats, key, t) ==
  LET g == migrateGet(c, stats, key, t)
  IN [cache |-> g.cache,
      stats |-> IF g.ret.kind # "undefined"
                  THEN [g.stats EXCEPT !.hits = @ + 1]
                  ELSE [g.stats EXCEPT !.misses = @ + 1],
      ret |-> g.ret]

\* setInCache(key, value) of migrateomio.js: the size is added to
\* cacheStats.currentSize, then the entry is set; an exception of set is
\* caught and logged.
migrateSetInCache(c, stats, key, value, t) ==
  LET cacheKey == safeStringify(KeyString(key))
      size == calculateSize(value, cacheKey)
      counted == [stats EXCEPT !.currentSize = @ + size]
      s == migrateSet(c, counted, key, value, t)
  IN [cache |-> s.cache, stats |-> s.stats]

MigrateInit ==
  /\ program = "migrate"
  /\ lruCache = EmptyCache
  /\ cacheStats = [hits |-> 0, misses |-> 0, evictions |-> 0,
                   currentSize |-> 0, lastEviction |-> 0]
  /\ now = 1
  /\ inflight = [k \in MigrateKeys |-> 0]
  /\ calls = 0
  /\ recency = <<>>
  /\ last = [op |-> "init", key |-> <<"", 0>>, ret |-> JsUndefined,
             removed |-> {}]

\* GET /api/cache-stats: the snapshot of cacheStats and the item count.
CacheStatsSnapshot ==
  [hits |-> cacheStats.hits, misses |-> cacheStats.misses,
   evictions |-> cacheStats.evictions,
   currentSize |-> cacheStats.currentSize,
   lastEviction |-> cacheStats.lastEviction,
   itemCount |-> Len(lruCache.keyList)]

MigrateCacheStats ==
  /\ program = "migrate"
  /\ last' = [op |-> "stats", key |-> <<"", 0>>, ret |-> CacheStatsSnapshot,
              removed |-> {}]
  /\ UNCHANGED <<program, lruCache, cacheStats, now, inflight, calls, recency>>

\* GET /api/trips/all and GET /api/destinations up to the await: the key is
\* read with lruCache.get directly.
DirectLookup(k) ==
  /\ program = "migrate"
  /\ k[1] \in {"allTrips", "destinations"}
  /\ calls < MaxMigrateCalls
  /\ LET g == migrateGet(lruCache, cacheStats, k, now)
         hit == g.ret.kind # "undefined"
     IN /\ hit \/ Awaiting < MaxInflight
        /\ lruCache' = g.cache
        /\ cacheStats' = g.stats
        /\ inflight' = IF hit THEN inflight ELSE [inflight EXCEPT ![k] = @ + 1]
        /\ recency' = IF hit THEN Touched(recency, k, Held(g.cache))
                              ELSE Forgotten(recency, Held(g.cache))
        /\ last' = [op |-> "lookup", key |-> k, ret |-> g.ret,
                    removed |-> Held(lruCache) \ Held(g.cache)]
  /\ calls' = calls + 1
  /\ UNCHANGED <<program, now>>

\* ... and after a successful query: the rows are stored with lruCache.set
\* directly; an exception of set reaches the handler's catch block (500).
DirectStore(k, v) ==
  /\ program = "migrate"
  /\ k[1] \in {"allTrips", "destinations"}
  /\ inflight[k] > 0
  /\ LET s == migrateSet(lruCache, cacheStats, k, v, now)
     IN /\ lruCache' = s.cache
        /\ cacheStats' = s.stats
        /\ recency' = IF k \in Held(s.cache)
                        THEN Touched(recency, k, Held(s.cache))
                        ELSE Forgotten(recency, Held(s.cache))
        /\ last' = [op |-> IF s.threw THEN "fail" ELSE "store", key |-> k,
                    ret |-> v, removed |-> Held(lruCache) \ Held(s.cache)]
  /\ inflight' = [inflight EXCEPT ![k] = @ - 1]
  /\ UNCHANGED <<program, now, calls>>

\* GET /api/trips: reads 'allTrips' with lruCache.get directly and, on a
\* miss, answers from the database without caching.
TripsPage ==
  /\ program = "migrate"
  /\ calls < MaxMigrateCalls
  /\ LET k == <<"allTrips", 0>>
         g == migrateGet(lruCache, cacheStats, k, now)
         hit == g.ret.kind # "undefined"
     IN /\ lruCache' = g.cache
        /\ cacheStats' = g.stats
        /\ recency' = IF hit THEN Touched(recency, k, Held(g.cache))
                              ELSE Forgotten(recency, Held(g.cache))
        /\ last' = [op |-> "page", key |-> k, ret |-> g.ret,
                    removed |-> Held(lruCache) \ Held(g.cache)]
  /\ calls' = calls + 1
  /\ UNCHANGED <<program, now, inflight>>

\* GET /api/stats/routes up to the await: getFromCache.
RouteStatsLookup(k) ==
  /\ program = "migrate"
  /\ k[1] = "routeStats"
  /\ calls < MaxMigrateCalls
  /\ LET g == migrateGetFromCache(lruCache, cacheStats, k, now)
         hit == g.ret.kind # "undefined"
     IN /\ hit \/ Awaiting < MaxInflight
        /\ lruCache' = g.cache
        /\ cacheStats' = g.stats
        /\ inflight' = IF hit THEN inflight ELSE [inflight EXCEPT ![k] = @ + 1]
        /\ recency' = IF hit THEN Touched(recency, k, Held(g.cache))
                              ELSE Forgotten(recency, Held(g.cache))
        /\ last' = [op |-> "lookup", key |-> k, ret |-> g.ret,
                    removed |-> Held(lruCache) \ Held(g.cache)]
  /\ calls' = calls + 1
  /\ UNCHANGED <<program, now>>

\* ... and after the queries: the result is cached through setInCache only
\* if its text is under the limit, and sent either way.
RouteStatsStore(k, v) ==
  /\ program = "migrate"
  /\ k[1] = "routeStats"
  /\ inflight[k] > 0
  /\ LET s == IF v.len < RouteStatsLimit
                THEN migrateSetInCache(lruCache, cacheStats, k, v, now)
                ELSE [cache |-> lruCache, stats |-> cacheStats]
     IN /\ lruCache' = s.cache
        /\ cacheStats' = s.stats
        /\ recency' = IF v.len < RouteStatsLimit
                        THEN Touched(recency, k, Held(s.cache))
                        ELSE recency
        /\ last' = [op |-> "store", key |-> k, ret |-> v,
                    removed |-> Held(lruCache) \ Held(s.cache)]
  /\ inflight' = [inflight EXCEPT ![k] = @ - 1]
  /\ UNCHANGED <<program, now, calls>>

\* A failed query: the catch block answers 500, the cache is not written.
MigrateFail(k) ==
  /\ program = "migrate"
  /\ inflight[k] > 0
  /\ inflight' = [inflight EXCEPT ![k] = @ - 1]
  /\ last' = [op |-> "fail", key |-> k, ret |-> JsUndefined, removed |-> {}]
  /\ UNCHANGED <<program, lruCache, cacheStats, now, calls, recency>>

MigrateNext ==
  \/ Tick /\ program = "migrate"
  \/ MigrateCacheStats
  \/ \E k \in MigrateKeys : DirectLookup(k)
  \/ \E v \in {Small, Big, Huge} : DirectStore(<<"allTrips", 0>>, v)
  \/ DirectStore(<<"destinations", 0>>, Small)
  \/ TripsPage
  \/ \E k \in MigrateKeys : RouteStatsLookup(k)
  \/ \E k \in MigrateKeys : \E v \in {Small, Big} : RouteStatsStore(k, v)
  \/ \E k \in MigrateKeys : MigrateFail(k)

MigrateSpec == MigrateInit /\ [][MigrateNext]_vars

\* setInCache applied to any value a caller may hand it (the function's own
\* contract; no handler of the file passes the last three).
SetInCacheCall(k, v) ==
  /\ program = "migrate"
  /\ calls < MaxUnitCalls
  /\ LET s == migrateSetInCache(lruCache, cacheStats, k, v, now)
     IN /\ lruCache' = s.cache
        /\ cacheStats' = s.stats
        /\ recency' = IF k \in Held(s.cache) /\ s.cache.valList[k] = v
                        THEN Touched(recency, k, Held(s.cache))
                        ELSE Forgotten(recency, Held(s.cache))
        /\ last' = [op |-> "set", key |-> k, ret |-> v,
                    removed |-> Held(lruCache) \ Held(s.cache)]
  /\ calls' = calls + 1
  /\ UNCHANGED <<program, now, inflight>>

\* getFromCache applied to any key.
GetFromCacheCall(k) ==
  /\ program = "migrate"
  /\ calls < MaxUnitCalls
  /\ LET g == migrateGetFromCache(lruCache, cacheStats, k, now)
     IN /\ lruCache' = g.cache
        /\ cacheStats' = g.stats
        /\ recency' = IF g.ret.kind # "undefined"
                        THEN Touched(recency, k, Held(g.cache))
                        ELSE Forgotten(recency, Held(g.cache))
        /\ last' = [op |-> "get", key |-> k, ret |-> g.ret,
                    removed |-> Held(lruCache) \ Held(g.cache)]
  /\ calls' = calls + 1
  /\ UNCHANGED <<program, now, inflight>>

CallNext ==
  \/ Tick /\ program = "migrate"
  \/ MigrateCacheStats
  \/ \E k \in MigrateKeys :
       \E v \in {Small, Big, Huge, JsCircular, JsFunction} : SetInCacheCall(k, v)
  \/ \E k \in MigrateKeys : GetFromCacheCall(k)

CallSpec == MigrateInit /\ [][CallNext]_vars

\* ----------------------------- src/server.js: GET /api/combined-trips key
\* Text is a sequence of characters; a token that never needs escaping or
\* splitting ("today", a date, a property name) counts as one character.
Absent == <<"<undefined>">>     \* a query parameter the request left out

BaseQuery ==
  [origin |-> Absent, destination |-> Absent, operator_name |-> Absent,
   transport_type |-> Absent, timeline |-> Absent, start_date |-> Absent,
   end_date |-> Absent, travel_date |-> Absent, page |-> Absent,
   limit |-> Absent, sort_by |-> Absent, sort_order |-> Absent]

\* The requests explored: the bare request and every request that sets one
\* parameter.
OriginValues ==
  <<<<>>, <<"a">>, <<"b">>, <<"a", ",", "b">>, <<"b", ",", "a">>,
    <<"a", "\"">>, <<"a", "\\">>>>

DestinationValues == <<<<"a">>, <<"a", ",", "b">>, <<"b", ",", "a">>>>

TransportValues == <<<<"a">>, <<"bus">>>>

TimelineValues == <<<<"today">>, <<"last7days">>>>

PageValues == <<<<"0">>, <<"1">>, <<"2">>, <<"-", "2">>, <<"x">>>>

LimitValues == <<<<"5">>, <<"5", "0">>, <<"1", "0", "0", "0">>, <<"x">>>>

SortByValues == <<<<"departure_time">>, <<"price_inr">>, <<"x">>>>

SortOrderValues == <<<<"ASC">>, <<"DESC">>>>

QueryList ==
  <<BaseQuery>>
    \o [i \in 1..Len(OriginValues) |-> [BaseQuery EXCEPT !.origin = OriginValues[i]]]
    \o [i \in 1..Len(DestinationValues) |->
          [BaseQuery EXCEPT !.destination = DestinationValues[i]]]
    \o <<[BaseQuery EXCEPT !.operator_name = <<"a">>]>>
    \o [i \in 1..Len(TransportValues) |->
          [BaseQuery EXCEPT !.transport_type = TransportValues[i]]]
    \o [i \in 1..Len(TimelineValues) |->
          [BaseQuery EXCEPT !.timeline = TimelineValues[i]]]
    \o <<[BaseQuery EXCEPT !.start_date = <<"2024-01-01">>],
         [BaseQuery EXCEPT !.end_date = <<"2024-01-01">>],
         [BaseQuery EXCEPT !.travel_date = <<"2024-01-01">>]>>
    \o [i \in 1..Len(PageValues) |-> [BaseQuery EXCEPT !.page = PageValues[i]]]
    \o [i \in 1..Len(LimitValues) |-> [BaseQuery EXCEPT !.limit = LimitValues[i]]]
    \o [i \in 1..Len(SortByValues) |-> [BaseQuery EXCEPT !.sort_by = SortByValues[i]]]
    \o [i \in 1..Len(SortOrderValues) |->
          [BaseQuery EXCEPT !.sort_order = SortOrderValues[i]]]

\* Requests are told apart by their place in the list.
Queries == 1..Len(QueryList)

\* Destructuring default: `name = dflt` applies when the parameter is undefined.
Default(v, dflt) == IF v = Absent THEN dflt ELSE v

\* JS truthiness of a query parameter: undefined and '' are falsy.
Truthy(v) == v # Absent /\ v # <<>>

\* String.prototype.split(',')
RECURSIVE SplitFrom(_, _, _)
SplitFrom(s, cur, acc) ==
  IF s = <<>> THEN Append(acc, cur)
  ELSE IF Head(s) = "," THEN SplitFrom(Tail(s), <<>>, Append(acc, cur))
  ELSE SplitFrom(Tail(s), Append(cur, Head(s)), acc)

split(s) == SplitFrom(s, <<>>, <<>>)

\* origin ? origin.split(',') : []
SplitList(v) == IF Truthy(v) THEN split(v) ELSE <<>>

\* parseInt and the clamps; NaN is NotANumber.
NotANumber == [nan |-> TRUE, n |-> 0]

Number(n) == [nan |-> FALSE, n |-> n]

DigitValue(c) ==
  CASE c = "0" -> 0 [] c = "1" -> 1 [] c = "2" -> 2 [] c = "3" -> 3
    [] c = "4" -> 4 [] c = "5" -> 5 [] c = "6" -> 6 [] c = "7" -> 7
    [] c = "8" -> 8 [] c = "9" -> 9 [] OTHER -> -1

RECURSIVE LeadingDigits(_, _, _)
LeadingDigits(s, seen, acc) ==
  IF s = <<>> \/ DigitValue(Head(s)) < 0
    THEN IF seen THEN Number(acc) ELSE NotANumber
    ELSE LeadingDigits(Tail(s), TRUE, acc * 10 + DigitValue(Head(s)))

parseInt(s) ==
  IF s # <<>> /\ Head(s) = "-"
    THEN LET m == LeadingDigits(Tail(s), FALSE, 0)
         IN IF m.nan THEN m ELSE Number(0 - m.n)
    ELSE LeadingDigits(s, FALSE, 0)

MathMax(a, x) == IF x.nan THEN x ELSE Number(IF x.n > a THEN x.n ELSE a)

MathMin(a, x) == IF x.nan THEN x ELSE Number(IF x.n < a THEN x.n ELSE a)

pageNum(q) == MathMax(1, parseInt(Default(q.page, <<"1">>)))

limitNum(q) == MathMin(100, MathMax(1, parseInt(Default(q.limit, <<"5", "0">>))))

\* JSON.stringify, piece by piece.
RECURSIVE Escaped(_)
Escaped(s) ==
  IF s = <<>> THEN <<>>
  ELSE IF Head(s) \in {"\"", "\\"} THEN <<"\\", Head(s)>> \o Escaped(Tail(s))
  ELSE <<Head(s)>> \o Escaped(Tail(s))

JsonString(s) == <<"\"">> \o Escaped(s) \o <<"\"">>

RECURSIVE JsonElements(_)
JsonElements(l) ==
  IF l = <<>> THEN <<>>
  ELSE IF Len(l) = 1 THEN JsonString(l[1])
  ELSE JsonString(l[1]) \o <<",">> \o JsonElements(Tail(l))

JsonArray(l) == <<"[">> \o JsonElements(l) \o <<"]">>

Digits == <<"0", "1", "2", "3", "4", "5", "6", "7", "8", "9">>

RECURSIVE Decimal(_)
Decimal(n) ==
  IF n < 10 THEN <<Digits[n + 1]>>
  ELSE Decimal(n \div 10) \o <<Digits[(n % 10) + 1]>>

JsonNumber(x) ==
  IF x.nan THEN <<"n", "u", "l", "l">>
  ELSE IF x.n < 0 THEN <<"-">> \o Decimal(0 - x.n)
  ELSE Decimal(x.n)

\* One property of the object: "name":text, preceded by a comma unless it
\* is the first; a property whose value is undefined is left out.
Property(sofar, name, text) ==
  sofar \o (IF sofar = <<"{">> THEN <<>> ELSE <<",">>)
        \o <<"\"", name, "\"", ":">> \o text

OptionalString(sofar, name, v) ==
  IF v = Absent THEN sofar ELSE Property(sofar, name, JsonString(v))

\* (mutant) the key is built without the sort settings
cacheKeyWithoutSort(q) ==
  LET p1 == Property(<<"{">>, "origins", JsonArray(SplitList(q.origin)))
      p2 == Property(p1, "destinations", JsonArray(SplitList(q.destination)))
      p3 == Property(p2, "operatorNames", JsonArray(SplitList(q.operator_name)))
      p4 == Property(p3, "transportTypes", JsonArray(SplitList(q.transport_type)))
      p5 == OptionalString(p4, "timeline", q.timeline)
      p6 == OptionalString(p5, "start_date", q.start_date)
      p7 == OptionalString(p6, "end_date", q.end_date)
      p8 == OptionalString(p7, "travel_date", q.travel_date)
      p9 == Property(p8, "pageNum", JsonNumber(pageNum(q)))
      p10 == Property(p9, "limitNum", JsonNumber(limitNum(q)))
  IN <<"combined_trips_">> \o p10 \o <<"}">>

\* const cacheKey = `combined_trips_${JSON.stringify({...})}`
cacheKey(q) ==
  LET p1 == Property(<<"{">>, "origins", JsonArray(SplitList(q.origin)))
      p2 == Property(p1, "destinations", JsonArray(SplitList(q.destination)))
      p3 == Property(p2, "operatorNames", JsonArray(SplitList(q.operator_name)))
      p4 == Property(p3, "transportTypes", JsonArray(SplitList(q.transport_type)))
      p5 == OptionalString(p4, "timeline", q.timeline)
      p6 == OptionalString(p5, "start_date", q.start_date)
      p7 == OptionalString(p6, "end_date", q.end_date)
      p8 == OptionalString(p7, "travel_date", q.travel_date)
      p9 == Property(p8, "pageNum", JsonNumber(pageNum(q)))
      p10 == Property(p9, "limitNum", JsonNumber(limitNum(q)))
      p11 == Property(p10, "sort_by",
                      JsonString(Default(q.sort_by, <<"departure_time">>)))
      p12 == Property(p11, "sort_order",
                      JsonString(Default(q.sort_order, <<"ASC">>)))
  IN <<"combined_trips_">> \o p12 \o <<"}">>

\* What a request asks for: the set of values selected for each filter
\* field, the date settings, the effective page and page size, and the sort
\* settings.  The response to a request is determined by it.
SetOf(l) == {l[i] : i \in 1..Len(l)}

FilterSpec(q) ==
  [origins |-> SetOf(SplitList(q.origin)),
   destinations |-> SetOf(SplitList(q.destination)),
   operatorNames |-> SetOf(SplitList(q.operator_name)),
   transportTypes |-> SetOf(SplitList(q.transport_type)),
   timeline |-> q.timeline, start_date |-> q.start_date,
   end_date |-> q.end_date, travel_date |-> q.travel_date,
   page |-> pageNum(q), limit |-> limitNum(q),
   sort_by |-> Default(q.sort_by, <<"departure_time">>),
   sort_order |-> Default(q.sort_order, <<"ASC">>)]

\* combinedResults for a request (the database is held fixed).
CombinedResults(q) == [kind |-> "json", len |-> 2, ver |-> FilterSpec(q)]

KeyInit ==
  /\ program = "keys"
  /\ lruCache = EmptyCache
  /\ cacheStats = [hits |-> 0, misses |-> 0]
  /\ now = 1
  /\ inflight = [q \in Queries |-> 0]
  /\ calls = 0
  /\ recency = <<>>
  /\ last = [op |-> "init", key |-> <<>>, ret |-> JsUndefined, removed |-> {},
             query |-> 0]

\* GET /api/combined-trips up to its await: the key is derived from the
\* query and looked up.
CombinedLookup(q) ==
  /\ program = "keys"
  /\ calls < MaxKeyCalls
  /\ LET k == cacheKey(QueryList[q])
         g == getFromCache(lruCache, cacheStats, k, now)
         hit == g.ret.kind # "undefined"
     IN /\ hit \/ Awaiting < MaxInflight
        /\ lruCache' = g.cache
        /\ cacheStats' = g.stats
        /\ inflight' = IF hit THEN inflight ELSE [inflight EXCEPT ![q] = @ + 1]
        /\ recency' = IF hit THEN Touched(recency, k, Held(g.cache))
                              ELSE Forgotten(recency, Held(g.cache))
        /\ last' = [op |-> "lookup", key |-> k, ret |-> g.ret,
                    removed |-> Held(lruCache) \ Held(g.cache), query |-> q]
  /\ calls' = calls + 1
  /\ UNCHANGED <<program, now>>

\* ... and after the provider queries: the combined results are stored
\* under the key and sent.
CombinedStore(q) ==
  /\ program = "keys"
  /\ inflight[q] > 0
  /\ LET k == cacheKey(QueryList[q])
         s == setInCache(lruCache, cacheStats, k, CombinedResults(QueryList[q]),
                         COMBINED_TTL, now)
     IN /\ lruCache' = s.cache
        /\ cacheStats' = s.stats
        /\ recency' = Touched(recency, k, Held(s.cache))
        /\ last' = [op |-> "store", key |-> k, ret |-> CombinedResults(QueryList[q]),
                    removed |-> Held(lruCache) \ Held(s.cache), query |-> q]
  /\ inflight' = [inflight EXCEPT ![q] = @ - 1]
  /\ UNCHANGED <<program, now, calls>>

KeyNext ==
  \/ \E q \in Queries : CombinedLookup(q)
  \/ \E q \in Queries : CombinedStore(q)

KeySpec == KeyInit /\ [][KeyNext]_vars

\* ------------------------------- src/server.js: cache keys of every endpoint
\* The key texts are sequences of characters as above; an underscore is a
\* character of its own and a word between underscores counts as one.
TransportTypesKey == <<"transport", "_", "types">>

FiltersKey == <<"filters", "_", "data">>

\* pools[provider]: the two pools are own properties of the object literal;
\* a name inherited from Object.prototype reads as a function, which is
\* truthy and is no pool; any other name reads as undefined.
PoolOf(provider) ==
  CASE provider \in {<<"12go">>, <<"bookaway">>} -> "pool"
    [] provider \in {<<"constructor">>, <<"toString">>, <<"valueOf">>} -> "inherited"
    [] OTHER -> "undefined"

\* parseInt(req.query.page) || 1: NaN and 0 are falsy.
OrDefault(x, dflt) == IF x.nan \/ x.n = 0 THEN Number(dflt) ELSE x

\* A number inside a template literal.
NumberText(x) ==
  IF x.nan THEN <<"NaN">>
  ELSE IF x.n < 0 THEN <<"-">> \o Decimal(0 - x.n)
  ELSE Decimal(x.n)

\* String.prototype.toLowerCase / toUpperCase on the letters that occur.
LowerOf(c) ==
  CASE c = "A" -> "a" [] c = "B" -> "b" [] c = "X" -> "x"
    [] c = "ASC" -> "asc" [] c = "DESC" -> "desc"
    [] c = "TODAY" -> "today" [] c = "Last 7 Days" -> "last 7 days"
    [] OTHER -> c

UpperOf(c) ==
  CASE c = "a" -> "A" [] c = "b" -> "B" [] c = "x" -> "X"
    [] c = "asc" -> "ASC" [] c = "desc" -> "DESC"
    [] c = "today" -> "TODAY"
    [] OTHER -> c

toLowerCase(s) == [i \in 1..Len(s) |-> LowerOf(s[i])]

toUpperCase(s) == [i \in 1..Len(s) |-> UpperOf(s[i])]

\* `${provider}_trips_page${page}_limit${limit}`
tripsCacheKey(provider, page, limit) ==
  LET p == OrDefault(parseInt(Default(page, <<>>)), 1)
      l == OrDefault(parseInt(Default(limit, <<>>)), 10)
  IN provider \o <<"_", "trips", "_", "page">> \o NumberText(p)
              \o <<"_", "limit">> \o NumberText(l)

\* (mutant) the search key leaves out the endpoint's name and the field
searchCacheKeyUnprefixed(provider, field, q) ==
  provider \o <<"_">> \o toLowerCase(q)

\* `${provider}_search_${field}_${q.toLowerCase()}`
searchCacheKey(provider, field, q) ==
  provider \o <<"_", "search", "_">> \o field \o <<"_">> \o toLowerCase(q)

validFields ==
  {<<"origin">>, <<"destination">>, <<"transport", "_", "type">>,
   <<"operator", "_", "name">>}

\* The requests explored, one record per request; a parameter the request
\* leaves out is Absent.
TripsRequest(provider, page, limit) ==
  [endpoint |-> "trips", provider |-> provider, page |-> page,
   limit |-> limit, field |-> Absent, q |-> Absent, query |-> 0,
   range |-> Absent, startDate |-> Absent, endDate |-> Absent]

SearchRequest(provider, field, q) ==
  [endpoint |-> "search", provider |-> provider, page |-> Absent,
   limit |-> Absent, field |-> field, q |-> q, query |-> 0,
   range |-> Absent, startDate |-> Absent, endDate |-> Absent]

PlainRequest(endpoint, query) ==
  [endpoint |-> endpoint, provider |-> Absent, page |-> Absent,
   limit |-> Absent, field |-> Absent, q |-> Absent, query |-> query,
   range |-> Absent, startDate |-> Absent, endDate |-> Absent]

\* GET /api/filter/date?provider=&range=&startDate=&endDate=
DateRequest(provider, range, startDate, endDate) ==
  [endpoint |-> "filter-date", provider |-> provider, page |-> Absent,
   limit |-> Absent, field |-> Absent, q |-> Absent, query |-> 0,
   range |-> range, startDate |-> startDate, endDate |-> endDate]

EndpointRequests ==
  <<PlainRequest("transport-types", 0),
    PlainRequest("filters", 0),
    PlainRequest("combined-trips", 1),
    PlainRequest("combined-trips", 2),
    TripsRequest(<<"12go">>, Absent, Absent),
    TripsRequest(<<"12go">>, <<"1">>, <<"1", "0">>),
    TripsRequest(<<"12go">>, <<"0">>, <<"x">>),
    TripsRequest(<<"12go">>, <<"-", "2">>, <<"5">>),
    TripsRequest(<<"bookaway">>, <<"2">>, <<"5">>),
    TripsRequest(<<"constructor">>, Absent, Absent),
    TripsRequest(<<"transport">>, Absent, Absent),
    SearchRequest(<<"12go">>, <<"origin">>, <<"A">>),
    SearchRequest(<<"12go">>, <<"origin">>, <<"a">>),
    SearchRequest(<<"12go">>, <<"destination">>, <<"a">>),
    SearchRequest(<<"12go">>, <<"origin">>,
                  <<"trips", "_", "page", "1", "_", "limit", "1", "0">>),
    SearchRequest(<<"12go">>, <<"transport", "_", "type">>, <<"types">>),
    SearchRequest(<<"12go">>, <<"page">>, <<"1">>),
    SearchRequest(<<"12go">>, <<"origin">>, Absent),
    SearchRequest(<<"12go">>, Absent,
                  <<"trips", "_", "page", "1", "_", "limit", "1", "0">>),
    SearchRequest(<<"12go">>, <<"trips">>,
                  <<"page", "1", "_", "limit", "1", "0">>),
    SearchRequest(<<"bookaway">>, <<"operator", "_", "name">>, <<"X">>),
    SearchRequest(<<"filters">>, <<"origin">>, <<"data">>),
    DateRequest(Absent, <<"today">>, Absent, Absent),
    DateRequest(<<"12go">>, <<"soon">>, Absent, Absent),
    DateRequest(<<"12go">>, <<"custom">>, <<"2024-01-03">>, Absent),
    DateRequest(<<"12go">>, <<"TODAY">>, Absent, Absent),
    DateRequest(<<"constructor">>, <<"today">>, Absent, Absent)>>

Requests == 1..Len(EndpointRequests)

\* The cases of switch (range.toLowerCase()) in /api/filter/date
DateRanges ==
  {<<"today">>, <<"tomorrow">>, <<"next 7 days">>, <<"next 14 days">>,
   <<"this month">>, <<"this year">>, <<"custom">>}

\* The check that answers 400 in a handler, "" if every check passes; the
\* checks are made in the handler's order, before its key is built.
RejectedBy(r) ==
  CASE r.endpoint = "trips" ->
         IF PoolOf(r.provider) = "undefined" THEN "Invalid provider" ELSE ""
    [] r.endpoint = "search" ->
         IF PoolOf(r.provider) = "undefined" THEN "Invalid provider"
         ELSE IF ~Truthy(r.field) \/ ~Truthy(r.q) THEN "field and q required"
         ELSE IF r.field \notin validFields THEN "Field must be one of"
         ELSE ""
    [] r.endpoint = "filter-date" ->
         IF ~Truthy(r.provider) \/ ~Truthy(r.range)
           THEN "Provider and range required"
         ELSE IF PoolOf(r.provider) = "undefined" THEN "Invalid provider"
         ELSE IF toLowerCase(r.range) \notin DateRanges
           THEN "Invalid date range specified"
         ELSE IF toLowerCase(r.range) = <<"custom">>
                   /\ (~Truthy(r.startDate) \/ ~Truthy(r.endDate))
           THEN "startDate and endDate required"
         ELSE ""
    [] OTHER -> ""

\* The checks a handler makes before it builds its key: 400 is answered
\* without touching the cache.
Accepted(r) ==
  CASE r.endpoint = "trips" -> PoolOf(r.provider) # "undefined"
    [] r.endpoint = "search" ->
         /\ PoolOf(r.provider) # "undefined"
         /\ Truthy(r.field) /\ Truthy(r.q)
         /\ r.field \in validFields
    [] r.endpoint = "filter-date" -> RejectedBy(r) = ""
    [] OTHER -> TRUE

\* const cacheKey = ... of each handler
EndpointKey(r) ==
  CASE r.endpoint = "transport-types" -> TransportTypesKey
    [] r.endpoint = "filters" -> FiltersKey
    [] r.endpoint = "trips" -> tripsCacheKey(r.provider, r.page, r.limit)
    [] r.endpoint = "search" -> searchCacheKey(r.provider, r.field, r.q)
    [] OTHER -> cacheKey(QueryList[r.query])

\* The response a handler builds, told apart by the endpoint that built it.
EndpointResponse(r) == [kind |-> "json", len |-> 2, ver |-> r.endpoint]

\* The body handed to res.json: the value itself, the value under the
\* property results, or the value's properties after success: true.
Body(success, wrapper, value) ==
  [success |-> success, wrapper |-> wrapper, value |-> value]

\* The body a handler sends on a cache hit:
\*   res.json(cachedData), or res.json({ results: cachedResults }) in search
HitBody(r, cached) ==
  IF r.endpoint = "search" THEN Body("undefined", "results", cached)
  ELSE Body("undefined", "", cached)

\* The body a handler sends after storing value under its key:
\*   res.json(response), res.json({ results }) in search,
\*   res.json({ success: true, ...combinedResults }) in combined-trips
MissBody(r, value) ==
  CASE r.endpoint = "search" -> Body("undefined", "results", value)
    [] r.endpoint = "combined-trips" -> Body("true", "", value)
    [] OTHER -> Body("undefined", "", value)

EndpointInit ==
  /\ program = "endpoints"
  /\ lruCache = EmptyCache
  /\ cacheStats = [hits |-> 0, misses |-> 0]
  /\ now = 1
  /\ inflight = [i \in Requests |-> 0]
  /\ calls = 0
  /\ recency = <<>>
  /\ last = [op |-> "init", key |-> <<>>, ret |-> JsUndefined, removed |-> {},
             query |-> 0]

\* A request that fails its handler's checks is answered 400.
EndpointReject(i) ==
  /\ program = "endpoints"
  /\ calls < MaxEndpointCalls
  /\ ~Accepted(EndpointRequests[i])
  /\ EndpointRequests[i].endpoint = "filter-date" => calls < MaxDateCalls
  /\ calls' = calls + 1
  /\ last' = [op |-> "reject", key |-> <<>>, ret |-> JsUndefined,
              removed |-> {}, query |-> i, status |-> 400,
              error |-> RejectedBy(EndpointRequests[i])]
  /\ UNCHANGED <<program, lruCache, cacheStats, now, inflight, recency>>

\* A handler up to its first await: the key is built and looked up.
EndpointLookup(i) ==
  /\ program = "endpoints"
  /\ calls < MaxEndpointCalls
  /\ Accepted(EndpointRequests[i])
  /\ EndpointRequests[i].endpoint # "filter-date"
  /\ LET k == EndpointKey(EndpointRequests[i])
         g == getFromCache(lruCache, cacheStats, k, now)
         hit == g.ret.kind # "undefined"
     IN /\ hit \/ Awaiting < MaxInflight
        /\ lruCache' = g.cache
        /\ cacheStats' = g.stats
        /\ inflight' = IF hit THEN inflight ELSE [inflight EXCEPT ![i] = @ + 1]
        /\ recency' = IF hit THEN Touched(recency, k, Held(g.cache))
                              ELSE Forgotten(recency, Held(g.cache))
        /\ last' = [op |-> "lookup", key |-> k, ret |-> g.ret,
                    removed |-> Held(lruCache) \ Held(g.cache), query |-> i,
                    body |-> HitBody(EndpointRequests[i], g.ret)]
  /\ calls' = calls + 1
  /\ UNCHANGED <<program, now>>

\* The rest of a handler whose queries succeeded: the response is stored
\* under the key and sent.  A provider name that is no pool never gets here.
EndpointStore(i) ==
  /\ program = "endpoints"
  /\ inflight[i] > 0
  /\ EndpointRequests[i].endpoint # "filter-date"
  /\ EndpointRequests[i].provider = Absent
       \/ PoolOf(EndpointRequests[i].provider) = "pool"
  /\ LET k == EndpointKey(EndpointRequests[i])
         v == EndpointResponse(EndpointRequests[i])
         s == setInCache(lruCache, cacheStats, k, v, 0, now)
     IN /\ lruCache' = s.cache
        /\ cacheStats' = s.stats
        /\ recency' = Touched(recency, k, Held(s.cache))
        /\ last' = [op |-> "store", key |-> k, ret |-> v,
                    removed |-> Held(lruCache) \ Held(s.cache), query |-> i,
                    body |-> MissBody(EndpointRequests[i], v)]
  /\ inflight' = [inflight EXCEPT ![i] = @ - 1]
  /\ UNCHANGED <<program, now, calls>>

\* The rest of a handler whose query threw (pool.query of something that is
\* no pool always does): 500, and the cache is not written.
EndpointFail(i) ==
  /\ program = "endpoints"
  /\ inflight[i] > 0
  /\ EndpointRequests[i].endpoint # "combined-trips"
  /\ inflight' = [inflight EXCEPT ![i] = @ - 1]
  /\ last' = [op |-> "fail", key |-> <<>>, ret |-> JsUndefined,
              removed |-> {}, query |-> i]
  /\ UNCHANGED <<program, lruCache, cacheStats, now, calls, recency>>

\* /api/filter/date up to its await: the statement is chosen and sent; this
\* endpoint has no cache.  It shares no state with the other endpoints, so
\* its requests are explored as the earliest ones only.
DateFilterQuery(i) ==
  /\ program = "endpoints"
  /\ calls < MaxDateCalls
  /\ EndpointRequests[i].endpoint = "filter-date"
  /\ Accepted(EndpointRequests[i])
  /\ Awaiting < MaxInflight
  /\ inflight' = [inflight EXCEPT ![i] = @ + 1]
  /\ calls' = calls + 1
  /\ last' = [op |-> "query", key |-> <<>>, ret |-> JsUndefined,
              removed |-> {}, query |-> i]
  /\ UNCHANGED <<program, lruCache, cacheStats, now, recency>>

\* /api/filter/date after pool.query resolved: the rows are sent.
DateFilterRows(i) ==
  /\ program = "endpoints"
  /\ inflight[i] > 0
  /\ EndpointRequests[i].endpoint = "filter-date"
  /\ PoolOf(EndpointRequests[i].provider) = "pool"
  /\ inflight' = [inflight EXCEPT ![i] = @ - 1]
  /\ last' = [op |-> "rows", key |-> <<>>, ret |-> JsUndefined,
              removed |-> {}, query |-> i, status |-> 200]
  /\ UNCHANGED <<program, lruCache, cacheStats, now, calls, recency>>

EndpointNext ==
  \/ \E i \in Requests : EndpointReject(i)
  \/ \E i \in Requests : EndpointLookup(i)
  \/ \E i \in Requests : EndpointStore(i)
  \/ \E i \in Requests : EndpointFail(i)
  \/ \E i \in Requests : DateFilterQuery(i)
  \/ \E i \in Requests : DateFilterRows(i)

EndpointSpec == EndpointInit /\ [][EndpointNext]_vars

\* --------------------------- src/server.js: GET /api/combined-trips, query
\* Calendar dates are days of January 2024, counted from 1; their text is
\* YYYY-MM-DD with one character for each of the three numbers.
TwoDigits ==
  <<"01", "02", "03", "04", "05", "06", "07", "08", "09", "10", "11", "12",
    "13", "14", "15", "16">>

DateText(d) == <<"2024", "-", "01", "-", TwoDigits[d]>>

\* The same date as the travel_date parameter writes it: DD-MM-YYYY.
TravelDateText(d) == <<TwoDigits[d], "-", "01", "-", "2024">>

\* A JS string or number, as a query parameter or a field of a response.
TextValue(s) == [kind |-> "string", text |-> s, num |-> NotANumber]

NumValue(x) == [kind |-> "number", text |-> <<>>, num |-> x]

\* String.prototype.split('-')
RECURSIVE SplitDashFrom(_, _, _)
SplitDashFrom(s, cur, acc) ==
  IF s = <<>> THEN Append(acc, cur)
  ELSE IF Head(s) = "-" THEN SplitDashFrom(Tail(s), <<>>, Append(acc, cur))
  ELSE SplitDashFrom(Tail(s), Append(cur, Head(s)), acc)

\* An element of a destructured array inside a template literal: a missing
\* element is undefined and prints as the word.
ElementText(l, i) == IF i <= Len(l) THEN l[i] ELSE <<"undefined">>

\* const [day, month, year] = travel_date.split('-');
\* const formattedDate = `${year}-${month}-${day}`;
formattedDate(travel_date) ==
  LET parts == SplitDashFrom(travel_date, <<>>, <<>>)
  IN ElementText(parts, 3) \o <<"-">> \o ElementText(parts, 2) \o <<"-">>
       \o ElementText(parts, 1)

\* values.map((_, i) => `$${paramIndex + i}`).join(',')
RECURSIVE placeholders(_, _)
placeholders(paramIndex, n) ==
  IF n = 0 THEN <<>>
  ELSE IF n = 1 THEN <<"$">> \o Decimal(paramIndex)
  ELSE <<"$">> \o Decimal(paramIndex) \o <<",">> \o placeholders(paramIndex + 1, n - 1)

\* conditions.join(' AND ')
RECURSIVE JoinAnd(_)
JoinAnd(conditions) ==
  IF conditions = <<>> THEN <<>>
  ELSE IF Len(conditions) = 1 THEN conditions[1]
  ELSE conditions[1] \o <<" AND ">> \o JoinAnd(Tail(conditions))

\* The builder's running state: params, conditions, paramIndex.
EmptyBuild == [params |-> <<>>, conditions |-> <<>>, paramIndex |-> 1]

\* (mutant) the parameter index advances by one whatever the number of values
InConditionIndexOffByOne(b, column, values) ==
  IF Len(values) > 0
    THEN [params |-> b.params \o [i \in 1..Len(values) |-> TextValue(values[i])],
          conditions |-> Append(b.conditions,
                                <<"(", column, " IN (">>
                                  \o placeholders(b.paramIndex, Len(values))
                                  \o <<"))">>),
          paramIndex |-> b.paramIndex + 1]
    ELSE b

\* (mutant) the values are written into the text instead of being bound
InConditionInlined(b, column, values) ==
  IF Len(values) > 0
    THEN [params |-> b.params,
          conditions |-> Append(b.conditions,
                                <<"(", column, " IN (">>
                                  \o JsonElements(values) \o <<"))">>),
          paramIndex |-> b.paramIndex]
    ELSE b

\* if (values.length > 0) { placeholders; params.push(...values);
\*   conditions.push(`(${column} IN (${placeholders}))`); paramIndex += length }
InCondition(b, column, values) ==
  IF Len(values) > 0
    THEN [params |-> b.params \o [i \in 1..Len(values) |-> TextValue(values[i])],
          conditions |-> Append(b.conditions,
                                <<"(", column, " IN (">>
                                  \o placeholders(b.paramIndex, Len(values))
                                  \o <<"))">>),
          paramIndex |-> b.paramIndex + Len(values)]
    ELSE b

\* (mutant) the parameter index is not advanced past the date
TravelDateConditionIndexKept(b, travel_date) ==
  IF Truthy(travel_date)
    THEN [params |-> Append(b.params, TextValue(formattedDate(travel_date))),
          conditions |-> Append(b.conditions,
                                <<"DATE(travel_date) = ", "$">>
                                  \o Decimal(b.paramIndex)),
          paramIndex |-> b.paramIndex]
    ELSE b

\* if (travel_date) { ... conditions.push(`DATE(travel_date) = $${paramIndex}`) }
TravelDateCondition(b, travel_date) ==
  IF Truthy(travel_date)
    THEN [params |-> Append(b.params, TextValue(formattedDate(travel_date))),
          conditions |-> Append(b.conditions,
                                <<"DATE(travel_date) = ", "$">>
                                  \o Decimal(b.paramIndex)),
          paramIndex |-> b.paramIndex + 1]
    ELSE b

\* switch (timeline.toLowerCase()): the text of each preset; a word that is
\* no preset adds nothing.
PresetCondition(word) ==
  CASE word = <<"today">> -> <<<<"travel_date = CURRENT_DATE">>>>
    [] word = <<"yesterday">> ->
         <<<<"travel_date = CURRENT_DATE - INTERVAL ", "'1 day'">>>>
    [] word = <<"last 7 days">> ->
         <<<<"travel_date >= CURRENT_DATE - INTERVAL ", "'7 days'">>>>
    [] word = <<"last 14 days">> ->
         <<<<"travel_date >= CURRENT_DATE - INTERVAL ", "'14 days'">>>>
    [] word = <<"last 28 days">> ->
         <<<<"travel_date >= CURRENT_DATE - INTERVAL ", "'28 days'">>>>
    [] word = <<"last 30 days">> ->
         <<<<"travel_date >= CURRENT_DATE - INTERVAL ", "'30 days'">>>>
    [] word = <<"last 90 days">> ->
         <<<<"travel_date >= CURRENT_DATE - INTERVAL ", "'90 days'">>>>
    [] word = <<"this month">> ->
         <<<<"travel_date >= date_trunc(", "'month'", ", CURRENT_DATE)">>>>
    [] word = <<"this year">> ->
         <<<<"travel_date >= date_trunc(", "'year'", ", CURRENT_DATE)">>>>
    [] OTHER -> <<>>

\* (mutant) the preset is added whether or not explicit bounds were given
DateConditionBoth(b, start_date, end_date, timeline) ==
  LET ranged ==
        IF Truthy(start_date) /\ Truthy(end_date)
          THEN [params |-> b.params \o <<TextValue(start_date), TextValue(end_date)>>,
                conditions |-> Append(b.conditions,
                                      <<"travel_date BETWEEN ", "$">>
                                        \o Decimal(b.paramIndex) \o <<" AND ", "$">>
                                        \o Decimal(b.paramIndex + 1)),
                paramIndex |-> b.paramIndex + 2]
          ELSE b
  IN IF Truthy(timeline)
       THEN [ranged EXCEPT !.conditions = @ \o PresetCondition(toLowerCase(timeline))]
       ELSE ranged

\* if (start_date && end_date) { BETWEEN } else if (timeline) { switch }
DateCondition(b, start_date, end_date, timeline) ==
  IF Truthy(start_date) /\ Truthy(end_date)
    THEN [params |-> b.params \o <<TextValue(start_date), TextValue(end_date)>>,
          conditions |-> Append(b.conditions,
                                <<"travel_date BETWEEN ", "$">>
                                  \o Decimal(b.paramIndex) \o <<" AND ", "$">>
                                  \o Decimal(b.paramIndex + 1)),
          paramIndex |-> b.paramIndex + 2]
    ELSE IF Truthy(timeline)
      THEN [b EXCEPT !.conditions = @ \o PresetCondition(toLowerCase(timeline))]
      ELSE b

SortColumns ==
  {<<"departure_time">>, <<"arrival_time">>, <<"price_inr">>,
   <<"duration_minutes">>}

SortOrders == {<<"ASC">>, <<"DESC">>}

\* (mutant) the requested sort column is used as it came
safeSortByUnchecked(sort_by) == sort_by

\* [...].includes(sort_by) ? sort_by : 'departure_time'
safeSortBy(sort_by) ==
  IF sort_by \in SortColumns THEN sort_by ELSE <<"departure_time">>

\* ['ASC', 'DESC'].includes(sort_order.toUpperCase()) ? ... : 'ASC'
safeSortOrder(sort_order) ==
  IF toUpperCase(sort_order) \in SortOrders THEN toUpperCase(sort_order)
  ELSE <<"ASC">>

\* JS arithmetic on numbers: NaN is absorbing.
Minus(x, y) == IF x.nan \/ y.nan THEN NotANumber ELSE Number(x.n - y.n)

Times(x, y) == IF x.nan \/ y.nan THEN NotANumber ELSE Number(x.n * y.n)

\* const offset = (pageNum - 1) * limitNum;
offset(q) == Times(Minus(pageNum(q), Number(1)), limitNum(q))

\* tableName === 'trips' ? 'origin' : 'from_location', and the like
originColumn(tableName) ==
  IF tableName = "trips" THEN "origin" ELSE "from_location"

destinationColumn(tableName) ==
  IF tableName = "trips" THEN "destination" ELSE "to_location"

\* The builder after its filter conditions.
BuiltConditions(q, tableName) ==
  LET b1 == InCondition(EmptyBuild, originColumn(tableName), SplitList(q.origin))
      b2 == InCondition(b1, destinationColumn(tableName), SplitList(q.destination))
      b3 == InCondition(b2, "transport_type", SplitList(q.transport_type))
      b4 == InCondition(b3, "operator_name", SplitList(q.operator_name))
      b5 == TravelDateCondition(b4, q.travel_date)
  IN DateCondition(b5, q.start_date, q.end_date, q.timeline)

\* The statement text over the conditions built: the count subquery, the
\* WHERE clause, ORDER BY and LIMIT/OFFSET.
QueryText(q, tableName, conditions, paramIndex) ==
  <<"SELECT *, (SELECT COUNT(*) FROM ", tableName, " ">>
    \o (IF Len(conditions) > 0 THEN <<"WHERE ">> \o JoinAnd(conditions) ELSE <<>>)
    \o <<") as total_count FROM ", tableName>>
    \o (IF Len(conditions) > 0 THEN <<" WHERE ">> \o JoinAnd(conditions) ELSE <<>>)
    \o <<" ORDER BY ">>
    \o safeSortBy(Default(q.sort_by, <<"departure_time">>)) \o <<" ">>
    \o safeSortOrder(Default(q.sort_order, <<"ASC">>))
    \o <<" LIMIT ", "$">> \o Decimal(paramIndex)
    \o <<" OFFSET ", "$">> \o Decimal(paramIndex + 1)

Built(q, tableName, b) ==
  [query |-> QueryText(q, tableName, b.conditions, b.paramIndex),
   params |-> b.params \o <<NumValue(limitNum(q)), NumValue(offset(q))>>]

\* buildQuery(tableName): { query, params }
buildQuery(q, tableName) == Built(q, tableName, BuiltConditions(q, tableName))

\* --------------------------------------- the two provider databases (pg)
\* The clock starts with 1 January 2024; CURRENT_DATE is the day it shows.
DayMs == 24 * 60 * 60 * 1000

CurrentDate(t) == 1 + (t \div DayMs)

\* The rows of the two tables.  departure_time, arrival_time, price_inr and
\* duration_minutes differ from row to row, so every ORDER BY is total.
TripRow(id, from, to, transport, operator, day, departs, price) ==
  [id |-> id, origin |-> from, destination |-> to,
   transport_type |-> transport, operator_name |-> operator,
   travel_date |-> day, departure_time |-> departs,
   arrival_time |-> 100 - departs, price_inr |-> price,
   duration_minutes |-> 50 + ((price * 7) % 11),
   total_count |-> <<>>]

TableRows(tableName) ==
  IF tableName = "trips"
    THEN <<TripRow(1, <<"a">>, <<"b">>, <<"bus">>, <<"x">>, 2, 8, 30),
           TripRow(2, <<"a">>, <<"c">>, <<"bus">>, <<"y">>, 3, 6, 10),
           TripRow(3, <<"b">>, <<"a">>, <<"train">>, <<"x">>, 10, 7, 20),
           TripRow(4, <<"a">>, <<"b">>, <<"train">>, <<"y">>, 11, 9, 40)>>
    ELSE <<TripRow(1, <<"a">>, <<"b">>, <<"bus">>, <<"x">>, 5, 4, 15),
           TripRow(2, <<"b">>, <<"a">>, <<"ferry">>, <<"z">>, 9, 3, 25),
           TripRow(3, <<"a">>, <<"c">>, <<"bus">>, <<"x">>, 12, 5, 35)>>

\* The value of a column of a row; the bookaway table names two columns
\* differently.
ColumnOf(row, column) ==
  CASE column \in {"origin", "from_location"} -> row.origin
    [] column \in {"destination", "to_location"} -> row.destination
    [] column = "transport_type" -> row.transport_type
    [] OTHER -> row.operator_name

\* A date read from text: YYYY-MM-DD of January 2024, or no date (0).
DayOfText(dd) ==
  IF \E d \in 1..Len(TwoDigits) : TwoDigits[d] = dd
    THEN CHOOSE d \in 1..Len(TwoDigits) : TwoDigits[d] = dd
    ELSE 0

DateOfText(s) ==
  IF Len(s) = 5 /\ s[1] = "2024" /\ s[2] = "-" /\ s[3] = "01" /\ s[4] = "-"
    THEN DayOfText(s[5])
    ELSE 0

\* Reading the statement.  A placeholder is "$" followed by digits.
RECURSIVE DigitsAhead(_)
DigitsAhead(toks) ==
  IF toks = <<>> \/ DigitValue(Head(toks)) < 0 THEN 0
  ELSE 1 + DigitsAhead(Tail(toks))

AfterTokens(toks, n) == SubSeq(toks, n + 1, Len(toks))

NoPlaceholder == [ok |-> FALSE, n |-> 0, rest |-> <<>>]

PlaceholderOf(toks, k) ==
  [ok |-> TRUE, n |-> parseInt(SubSeq(toks, 2, k + 1)).n,
   rest |-> AfterTokens(toks, k + 1)]

\* [ok, n, rest]: the placeholder at the head of toks
ReadPlaceholder(toks) ==
  IF Len(toks) >= 2 /\ toks[1] = "$" /\ DigitsAhead(Tail(toks)) > 0
    THEN PlaceholderOf(toks, DigitsAhead(Tail(toks)))
    ELSE NoPlaceholder

\* [ok, first, count, rest]: a comma-separated list of placeholders
RECURSIVE ReadPlaceholders(_)
PlaceholdersFrom(p, more) ==
  [ok |-> more.ok /\ more.first = p.n + 1, first |-> p.n,
   count |-> more.count + 1, rest |-> more.rest]

PlaceholdersWith(p) ==
  IF ~p.ok THEN [ok |-> FALSE, first |-> 0, count |-> 0, rest |-> <<>>]
  ELSE IF p.rest # <<>> /\ Head(p.rest) = ","
    THEN PlaceholdersFrom(p, ReadPlaceholders(Tail(p.rest)))
    ELSE [ok |-> TRUE, first |-> p.n, count |-> 1, rest |-> p.rest]

ReadPlaceholders(toks) == PlaceholdersWith(ReadPlaceholder(toks))

NoCondition ==
  [ok |-> FALSE, op |-> "none", column |-> "", first |-> 0, count |-> 0,
   back |-> 0, rest |-> <<>>]

IntervalDays(tok) ==
  CASE tok = "'1 day'" -> 1 [] tok = "'7 days'" -> 7 [] tok = "'14 days'" -> 14
    [] tok = "'28 days'" -> 28 [] tok = "'30 days'" -> 30
    [] tok = "'90 days'" -> 90 [] OTHER -> -1

\* (column IN ($n,...)), the list l read
InRead(column, l) ==
  IF l.ok /\ l.rest # <<>> /\ Head(l.rest) = "))"
    THEN [NoCondition EXCEPT !.ok = TRUE, !.op = "in", !.column = column,
            !.first = l.first, !.count = l.count, !.rest = Tail(l.rest)]
    ELSE NoCondition

\* DATE(travel_date) = $n, the placeholder p read
DateRead(p) ==
  IF p.ok
    THEN [NoCondition EXCEPT !.ok = TRUE, !.op = "date", !.first = p.n,
            !.count = 1, !.rest = p.rest]
    ELSE NoCondition

\* travel_date BETWEEN $n AND $m, the placeholders lo and hi read
UpperAfter(lo) ==
  IF lo.ok /\ lo.rest # <<>> /\ Head(lo.rest) = " AND "
    THEN ReadPlaceholder(Tail(lo.rest))
    ELSE NoPlaceholder

BetweenRead(lo, hi) ==
  IF hi.ok
    THEN [NoCondition EXCEPT !.ok = TRUE, !.op = "between", !.first = lo.n,
            !.count = hi.n, !.rest = hi.rest]
    ELSE NoCondition

BetweenAfter(lo) == BetweenRead(lo, UpperAfter(lo))

\* One condition at the head of toks.
ReadCondition(toks) ==
  CASE Len(toks) >= 3 /\ toks[1] = "(" /\ toks[3] = " IN (" ->
         InRead(toks[2], ReadPlaceholders(AfterTokens(toks, 3)))
    [] Len(toks) >= 1 /\ toks[1] = "DATE(travel_date) = " ->
         DateRead(ReadPlaceholder(Tail(toks)))
    [] Len(toks) >= 1 /\ toks[1] = "travel_date BETWEEN " ->
         BetweenAfter(ReadPlaceholder(Tail(toks)))
    [] Len(toks) >= 1 /\ toks[1] = "travel_date = CURRENT_DATE" ->
         [NoCondition EXCEPT !.ok = TRUE, !.op = "on", !.rest = Tail(toks)]
    [] Len(toks) >= 2 /\ toks[1] = "travel_date = CURRENT_DATE - INTERVAL "
         /\ IntervalDays(toks[2]) >= 0 ->
         [NoCondition EXCEPT !.ok = TRUE, !.op = "on",
            !.back = IntervalDays(toks[2]), !.rest = AfterTokens(toks, 2)]
    [] Len(toks) >= 2 /\ toks[1] = "travel_date >= CURRENT_DATE - INTERVAL "
         /\ IntervalDays(toks[2]) >= 0 ->
         [NoCondition EXCEPT !.ok = TRUE, !.op = "since",
            !.back = IntervalDays(toks[2]), !.rest = AfterTokens(toks, 2)]
    [] Len(toks) >= 3 /\ toks[1] = "travel_date >= date_trunc("
         /\ toks[2] \in {"'month'", "'year'"} /\ toks[3] = ", CURRENT_DATE)" ->
         [NoCondition EXCEPT !.ok = TRUE, !.op = "trunc",
            !.rest = AfterTokens(toks, 3)]
    [] OTHER -> NoCondition

\* [ok, conditions, rest]: conditions joined by AND
RECURSIVE ReadConditions(_)
ConditionsFrom(c, more) ==
  [ok |-> more.ok, conditions |-> <<[c EXCEPT !.rest = <<>>]>> \o more.conditions,
   rest |-> more.rest]

ConditionsWith(c) ==
  IF ~c.ok THEN [ok |-> FALSE, conditions |-> <<>>, rest |-> <<>>]
  ELSE IF c.rest # <<>> /\ Head(c.rest) = " AND "
    THEN ConditionsFrom(c, ReadConditions(Tail(c.rest)))
    ELSE [ok |-> TRUE, conditions |-> <<[c EXCEPT !.rest = <<>>]>>,
          rest |-> c.rest]

ReadConditions(toks) == ConditionsWith(ReadCondition(toks))

\* An optional WHERE clause introduced by the word given.
ReadWhere(toks, word) ==
  IF toks # <<>> /\ Head(toks) = word THEN ReadConditions(Tail(toks))
  ELSE [ok |-> TRUE, conditions |-> <<>>, rest |-> toks]

\* The whole statement buildQuery writes:
\*   SELECT *, (SELECT COUNT(*) FROM t [WHERE c]) as total_count FROM t
\*   [WHERE c] ORDER BY column direction LIMIT $n OFFSET $m
\* read clause by clause; what has been read is handed on.
NoStatement ==
  [ok |-> FALSE, table |-> "", counted |-> <<>>, filtered |-> <<>>,
   column |-> "", direction |-> "", limit |-> 0, offset |-> 0]

OffsetAfter(lim) ==
  IF lim.ok /\ lim.rest # <<>> /\ Head(lim.rest) = " OFFSET "
    THEN ReadPlaceholder(Tail(lim.rest))
    ELSE NoPlaceholder

ReadPaging(table, inner, outer, order, lim, off) ==
  IF ~(off.ok /\ off.rest = <<>>) THEN NoStatement
  ELSE [ok |-> TRUE, table |-> table, counted |-> inner.conditions,
        filtered |-> outer.conditions, column |-> order[2],
        direction |-> order[4], limit |-> lim.n, offset |-> off.n]

ReadLimit(table, inner, outer, order, lim) ==
  ReadPaging(table, inner, outer, order, lim, OffsetAfter(lim))

ReadOrder(table, inner, outer) ==
  IF ~(outer.ok /\ Len(outer.rest) >= 5 /\ outer.rest[1] = " ORDER BY "
         /\ <<outer.rest[2]>> \in SortColumns /\ outer.rest[3] = " "
         /\ <<outer.rest[4]>> \in SortOrders /\ outer.rest[5] = " LIMIT ")
    THEN NoStatement
    ELSE ReadLimit(table, inner, outer, outer.rest,
                   ReadPlaceholder(AfterTokens(outer.rest, 5)))

ReadFrom(table, inner) ==
  IF ~(inner.ok /\ Len(inner.rest) >= 2
         /\ inner.rest[1] = ") as total_count FROM " /\ inner.rest[2] = table)
    THEN NoStatement
    ELSE ReadOrder(table, inner, ReadWhere(AfterTokens(inner.rest, 2), " WHERE "))

ReadStatement(toks) ==
  IF ~(Len(toks) >= 3 /\ toks[1] = "SELECT *, (SELECT COUNT(*) FROM "
         /\ toks[3] = " ")
    THEN NoStatement
    ELSE ReadFrom(toks[2], ReadWhere(AfterTokens(toks, 3), "WHERE "))

\* Whether the parameters a condition names exist and have the type the
\* column needs: text for the four filter columns, a date for travel_date.
ConditionBound(c, params) ==
  CASE c.op = "in" ->
         \A i \in c.first..(c.first + c.count - 1) :
           i \in 1..Len(params) /\ params[i].kind = "string"
    [] c.op = "date" ->
         /\ c.first \in 1..Len(params)
         /\ params[c.first].kind = "string"
         /\ DateOfText(params[c.first].text) > 0
    [] c.op = "between" ->
         \A i \in {c.first, c.count} :
           /\ i \in 1..Len(params)
           /\ params[i].kind = "string"
           /\ DateOfText(params[i].text) > 0
    [] OTHER -> TRUE

\* Whether a row satisfies a condition today.
Satisfies(row, c, params, today) ==
  CASE c.op = "in" ->
         \E i \in c.first..(c.first + c.count - 1) :
           params[i].text = ColumnOf(row, c.column)
    [] c.op = "date" -> row.travel_date = DateOfText(params[c.first].text)
    [] c.op = "between" ->
         /\ DateOfText(params[c.first].text) <= row.travel_date
         /\ row.travel_date <= DateOfText(params[c.count].text)
    [] c.op = "on" -> row.travel_date = today - c.back
    [] c.op = "since" -> row.travel_date >= today - c.back
    [] OTHER -> row.travel_date >= 1

Selected(rows, conditions, params, today) ==
  SelectSeq(rows, LAMBDA row :
    \A i \in 1..Len(conditions) : Satisfies(row, conditions[i], params, today))

SortKey(row, column) ==
  CASE column = "departure_time" -> row.departure_time
    [] column = "arrival_time" -> row.arrival_time
    [] column = "price_inr" -> row.price_inr
    [] OTHER -> row.duration_minutes

Ordered(rows, column, direction) ==
  SortSeq(rows, LAMBDA r1, r2 :
    IF direction = "ASC" THEN SortKey(r1, column) < SortKey(r2, column)
    ELSE SortKey(r1, column) > SortKey(r2, column))

\* LIMIT n OFFSET m
Page(rows, n, m) ==
  SubSeq(rows, m + 1, IF m + n < Len(rows) THEN m + n ELSE Len(rows))

\* Whether every parameter the statement names is there and of the type its
\* place needs; LIMIT and OFFSET need numbers that are not negative, and NaN
\* is no number to the database.
StatementBound(st, params) ==
  /\ \A i \in 1..Len(st.counted) : ConditionBound(st.counted[i], params)
  /\ \A i \in 1..Len(st.filtered) : ConditionBound(st.filtered[i], params)
  /\ \A i \in {st.limit, st.offset} :
       /\ i \in 1..Len(params)
       /\ params[i].kind = "number"
       /\ ~params[i].num.nan
       /\ params[i].num.n >= 0

\* COUNT(*) is a bigint, which the pg client hands over as a string.
WithTotalCount(rows, count) ==
  [i \in 1..Len(rows) |-> [rows[i] EXCEPT !.total_count = Decimal(count)]]

RowsOf(st, params, today) ==
  WithTotalCount(
    Page(Ordered(Selected(TableRows(st.table), st.filtered, params, today),
                 st.column, st.direction),
         params[st.limit].num.n, params[st.offset].num.n),
    Len(Selected(TableRows(st.table), st.counted, params, today)))

ExecuteRead(st, params, today) ==
  IF st.ok /\ StatementBound(st, params)
    THEN [ok |-> TRUE, rows |-> RowsOf(st, params, today)]
    ELSE [ok |-> FALSE, rows |-> <<>>]

\* pool.query(text, params) settled: [ok, rows].  The statement is refused
\* if it does not read, if a parameter is missing or of the wrong type, or
\* if a date does not read.
Execute(text, params, today) == ExecuteRead(ReadStatement(text), params, today)

\* ------------------------ src/server.js: GET /api/combined-trips, handler
\* The requests explored.
HostileText == <<"x", "'", " OR 1=1; --">>

HostileColumn == <<"\"", "; DROP TABLE trips">>

TripQueryList ==
  <<BaseQuery,
    [BaseQuery EXCEPT !.origin = <<"b", ",", "a">>, !.limit = <<"1">>],
    [BaseQuery EXCEPT !.origin = HostileText, !.destination = <<"a", ",", "c">>,
                      !.operator_name = HostileText],
    [BaseQuery EXCEPT !.origin = <<"a", ",", ",", "b">>, !.destination = <<"b">>,
                      !.transport_type = <<"bus", ",", "train">>,
                      !.operator_name = <<"x", ",", "y", ",", "z">>],
    [BaseQuery EXCEPT !.timeline = <<"last 7 days">>],
    [BaseQuery EXCEPT !.timeline = <<"Last 7 Days">>, !.limit = <<"2">>],
    [BaseQuery EXCEPT !.timeline = <<"soon">>, !.start_date = HostileText],
    [BaseQuery EXCEPT !.start_date = DateText(3), !.end_date = DateText(10)],
    [BaseQuery EXCEPT !.start_date = <<>>, !.end_date = DateText(9),
                      !.timeline = <<"today">>],
    [BaseQuery EXCEPT !.start_date = DateText(3), !.end_date = DateText(9),
                      !.timeline = <<"today">>],
    [BaseQuery EXCEPT !.travel_date = <<"x">>],
    [BaseQuery EXCEPT !.origin = <<"a">>, !.travel_date = TravelDateText(11),
                      !.start_date = DateText(3), !.end_date = DateText(11)],
    [BaseQuery EXCEPT !.page = <<"0">>, !.limit = <<"1", "0", "0", "0">>],
    [BaseQuery EXCEPT !.page = <<"2">>, !.limit = <<"1">>],
    [BaseQuery EXCEPT !.page = <<"-", "2">>, !.limit = <<"-", "5">>],
    [BaseQuery EXCEPT !.page = <<"x">>, !.limit = <<"x">>],
    [BaseQuery EXCEPT !.sort_by = <<"price_inr">>, !.sort_order = <<"DESC">>],
    [BaseQuery EXCEPT !.sort_by = HostileColumn],
    [BaseQuery EXCEPT !.sort_by = HostileColumn, !.sort_order = <<"DESC">>],
    [BaseQuery EXCEPT !.sort_by = <<"arrival_time">>, !.sort_order = <<"desc">>],
    [BaseQuery EXCEPT !.sort_by = <<"x">>, !.sort_order = HostileText]>>

TripQueries == 1..Len(TripQueryList)

\* The days the requests may arrive on.
Todays == {9, 10}

\* A provider's query: not settled yet, resolved with rows, or rejected
\* (the .catch then resolves it with []).
Pending == [state |-> "pending", rows |-> <<>>]

Resolved(rows) == [state |-> "rows", rows |-> rows]

Rejected == [state |-> "failed", rows |-> <<>>]

\* value || 0 for a string: '' is falsy.
OrZero(text) == IF text = <<>> THEN NumValue(Number(0)) ELSE TextValue(text)

\* String(value)
ToText(v) == IF v.kind = "string" THEN v.text ELSE NumberText(v.num)

\* Number(value) for a number or a string of digits
ToNumber(v) ==
  IF v.kind = "number" THEN v.num
  ELSE IF v.text = <<>> THEN Number(0)
  ELSE parseInt(v.text)

\* a + b: the sum of two numbers; if either is a string, the two texts
\* joined.
JsAdd(a, b) ==
  IF a.kind = "number" /\ b.kind = "number"
    THEN NumValue(IF a.num.nan \/ b.num.nan THEN NotANumber
                  ELSE Number(a.num.n + b.num.n))
    ELSE TextValue(ToText(a) \o ToText(b))

\* Math.ceil(a / b) for a >= 0 and b >= 1
CeilDiv(a, b) ==
  LET x == ToNumber(a)
  IN IF x.nan \/ b.nan THEN NotANumber
     ELSE Number((x.n + b.n - 1) \div b.n)

\* ({ total_count, ...rest }) => rest
WithoutTotalCount(row) == [f \in (DOMAIN row) \ {"total_count"} |-> row[f]]

\* processResults(results, source)
processResults(results) ==
  IF Len(results) = 0
    THEN [items |-> <<>>, total |-> NumValue(Number(0))]
    ELSE [items |-> [i \in 1..Len(results) |-> WithoutTotalCount(results[i])],
          total |-> OrZero(results[1].total_count)]

\* const combinedResults = { data, pagination: { page, limit, total, totalPages } }
combinedResults(q, result12go, resultBookaway) ==
  LET twelveGoData == processResults(result12go)
      bookawayData == processResults(resultBookaway)
      total == JsAdd(twelveGoData.total, bookawayData.total)
  IN [kind |-> "json", len |-> 2, ver |-> 0,
      data |-> twelveGoData.items \o bookawayData.items,
      pagination |-> [page |-> NumValue(pageNum(q)),
                      limit |-> NumValue(limitNum(q)),
                      total |-> total,
                      totalPages |-> NumValue(CeilDiv(total, limitNum(q)))]]

TripsInit ==
  /\ program = "trips"
  /\ lruCache = EmptyCache
  /\ cacheStats = [hits |-> 0, misses |-> 0]
  /\ now \in {(d - 1) * DayMs + 1 : d \in Todays}
  /\ inflight = <<>>
  /\ calls = 0
  /\ recency = <<>>
  /\ last = [op |-> "init", query |-> 0]

\* The handler up to its await: the key is looked up; a hit is sent as it
\* was stored; on a miss the two statements are built and sent.
TripsReceive(qi) ==
  /\ program = "trips"
  /\ calls < MaxTripCalls
  /\ LET q == TripQueryList[qi]
         k == cacheKey(q)
         g == getFromCache(lruCache, cacheStats, k, now)
         hit == g.ret.kind # "undefined"
         twelveGoQuery == buildQuery(q, "trips")
         bookawayQuery == buildQuery(q, "bookaway_trips")
     IN /\ hit \/ Len(inflight) < MaxInflight
        /\ lruCache' = g.cache
        /\ cacheStats' = g.stats
        /\ inflight' =
             IF hit THEN inflight
             ELSE Append(inflight,
                         [query |-> qi, key |-> k,
                          twelveGoQuery |-> twelveGoQuery,
                          bookawayQuery |-> bookawayQuery,
                          result12go |-> Pending, resultBookaway |-> Pending])
        /\ recency' = IF hit THEN Touched(recency, k, Held(g.cache))
                              ELSE Forgotten(recency, Held(g.cache))
        /\ last' = IF hit
                     THEN [op |-> "cached", query |-> qi, key |-> k,
                           status |-> 200, success |-> "undefined",
                           ret |-> g.ret]
                     ELSE [op |-> "built", query |-> qi, key |-> k]
  /\ calls' = calls + 1
  /\ UNCHANGED <<program, now>>

\* pools['12go'].query(...) resolves: .then(res => res.rows)
TwelveGoRows(i) ==
  /\ program = "trips"
  /\ i \in 1..Len(inflight)
  /\ inflight[i].result12go.state = "pending"
  /\ LET r == Execute(inflight[i].twelveGoQuery.query,
                      inflight[i].twelveGoQuery.params, CurrentDate(now))
     IN /\ r.ok
        /\ inflight' = [inflight EXCEPT ![i].result12go = Resolved(r.rows)]
  /\ last' = [op |-> "rows", query |-> inflight[i].query]
  /\ UNCHANGED <<program, lruCache, cacheStats, now, calls, recency>>

\* pools['12go'].query(...) rejects (the statement is refused, or the
\* database cannot be reached): .catch(err => [])
TwelveGoFails(i) ==
  /\ program = "trips"
  /\ i \in 1..Len(inflight)
  /\ inflight[i].result12go.state = "pending"
  /\ inflight' = [inflight EXCEPT ![i].result12go = Rejected]
  /\ last' = [op |-> "failed", query |-> inflight[i].query]
  /\ UNCHANGED <<program, lruCache, cacheStats, now, calls, recency>>

\* pools['bookaway'].query(...) resolves
BookawayRows(i) ==
  /\ program = "trips"
  /\ i \in 1..Len(inflight)
  /\ inflight[i].resultBookaway.state = "pending"
  /\ LET r == Execute(inflight[i].bookawayQuery.query,
                      inflight[i].bookawayQuery.params, CurrentDate(now))
     IN /\ r.ok
        /\ inflight' = [inflight EXCEPT ![i].resultBookaway = Resolved(r.rows)]
  /\ last' = [op |-> "rows", query |-> inflight[i].query]
  /\ UNCHANGED <<program, lruCache, cacheStats, now, calls, recency>>

\* pools['bookaway'].query(...) rejects
BookawayFails(i) ==
  /\ program = "trips"
  /\ i \in 1..Len(inflight)
  /\ inflight[i].resultBookaway.state = "pending"
  /\ inflight' = [inflight EXCEPT ![i].resultBookaway = Rejected]
  /\ last' = [op |-> "failed", query |-> inflight[i].query]
  /\ UNCHANGED <<program, lruCache, cacheStats, now, calls, recency>>

\* (mutant) the first promise to settle is enough
AnySettled(r) ==
  r.result12go.state # "pending" \/ r.resultBookaway.state # "pending"

\* await Promise.all([...]): both promises have settled (neither can reject,
\* each has its own .catch).
AllSettled(r) ==
  r.result12go.state # "pending" /\ r.resultBookaway.state # "pending"

\* After Promise.all: the results are processed and combined, stored under
\* the key and sent with success: true.
TripsRespond(i) ==
  /\ program = "trips"
  /\ i \in 1..Len(inflight)
  /\ AllSettled(inflight[i])
  /\ LET r == inflight[i]
         body == combinedResults(TripQueryList[r.query], r.result12go.rows,
                                 r.resultBookaway.rows)
         s == setInCache(lruCache, cacheStats, r.key, body, COMBINED_TTL, now)
     IN /\ lruCache' = s.cache
        /\ cacheStats' = s.stats
        /\ recency' = Touched(recency, r.key, Held(s.cache))
        /\ last' = [op |-> "sent", query |-> r.query, key |-> r.key,
                    status |-> 200, success |-> "true", ret |-> body,
                    result12go |-> r.result12go,
                    resultBookaway |-> r.resultBookaway]
  /\ inflight' = SubSeq(inflight, 1, i - 1) \o SubSeq(inflight, i + 1, Len(inflight))
  /\ UNCHANGED <<program, now, calls>>

TripsNext ==
  \/ \E qi \in TripQueries : TripsReceive(qi)
  \/ \E i \in 1..MaxInflight : TwelveGoRows(i)
  \/ \E i \in 1..MaxInflight : TwelveGoFails(i)
  \/ \E i \in 1..MaxInflight : BookawayRows(i)
  \/ \E i \in 1..MaxInflight : BookawayFails(i)
  \/ \E i \in 1..MaxInflight : TripsRespond(i)

TripsSpec == TripsInit /\ [][TripsNext]_vars

\* ------- src/server.js: buildQuery over every combination of its filters
\* Every request that gives or leaves out each filter, with one or several
\* values where a filter takes a list, a preset the switch knows and one it
\* does not, and the first or a later page.
FilterCombinations ==
  {[BaseQuery EXCEPT !.origin = o, !.destination = d, !.transport_type = tt,
                     !.operator_name = op, !.travel_date = td,
                     !.start_date = sd, !.end_date = ed, !.timeline = tl,
                     !.page = pg, !.limit = lm] :
     o \in {Absent, <<"a">>, <<"b", ",", "a">>},
     d \in {Absent, <<"b">>},
     tt \in {Absent, <<"bus", ",", "train">>},
     op \in {Absent, <<"x">>},
     td \in {Absent, TravelDateText(11)},
     sd \in {Absent, DateText(3)},
     ed \in {Absent, DateText(9)},
     tl \in {Absent, <<"today">>, <<"soon">>},
     pg \in {Absent, <<"2">>},
     lm \in {Absent, <<"5">>}}

NotBuilt == [query |-> <<>>, params |-> <<>>]

\* The handler has read its parameters.
BuildInit ==
  /\ program = "buildQuery"
  /\ lruCache = EmptyCache
  /\ cacheStats = [hits |-> 0, misses |-> 0]
  /\ now = 1
  /\ \E q \in FilterCombinations :
       inflight = [query |-> q, tableName |-> "", statement |-> NotBuilt]
  /\ calls = 0
  /\ recency = <<>>
  /\ last = [op |-> "init"]

\* buildQuery(tableName) is called for one of the two tables.
BuildStatement(tableName) ==
  /\ program = "buildQuery"
  /\ inflight.tableName = ""
  /\ inflight' = [inflight EXCEPT
                    !.tableName = tableName,
                    !.statement = buildQuery(inflight.query, tableName)]
  /\ last' = [op |-> "built"]
  /\ UNCHANGED <<program, lruCache, cacheStats, now, calls, recency>>

BuildNext == \E tableName \in {"trips", "bookaway_trips"} : BuildStatement(tableName)

BuildSpec == BuildInit /\ [][BuildNext]_vars

\* ------------- src/unnamed/part_001 and src/migrateomio.js 1-118: import
\* A field of a record of the JSON file: a string, a number, null, or a
\* field the record does not have.
Missing == [kind |-> "undefined", text |-> <<>>, num |-> NotANumber]

Null == [kind |-> "null", text |-> <<>>, num |-> NotANumber]

\* !v
Falsy(v) ==
  CASE v.kind \in {"undefined", "null"} -> TRUE
    [] v.kind = "string" -> v.text = <<>>
    [] OTHER -> v.num.nan \/ v.num.n = 0

RECURSIVE TrimStart(_)
TrimStart(s) == IF s # <<>> /\ Head(s) = " " THEN TrimStart(Tail(s)) ELSE s

\* parseFloat(v): the argument is read as a string, leading blanks are
\* skipped, and the longest numeric prefix is the result.  The prices
\* explored are whole numbers, on which the prefix is that of parseInt.
parseFloat(v) ==
  CASE v.kind = "string" -> parseInt(TrimStart(v.text))
    [] v.kind = "number" -> v.num
    [] OTHER -> NotANumber

\* String(v).replace(/[,\s]/g, '')
WithoutSeparators(v) ==
  SelectSeq(IF v.kind = "string" THEN v.text ELSE NumberText(v.num),
            LAMBDA c : c \notin {",", " "})

\* parsePriceNumber(v): null unless the text without commas and blanks
\* parses to a finite number.  part_001 returns null for undefined and
\* null, migrateomio.js for every falsy value.
parsePriceNumber(script, v) ==
  IF (script = "part_001" /\ v.kind \in {"undefined", "null"})
       \/ (script = "migrateomio" /\ Falsy(v))
    THEN Null
  ELSE IF parseFloat(TextValue(WithoutSeparators(v))).nan THEN Null
  ELSE NumValue(parseFloat(TextValue(WithoutSeparators(v))))

\* value || 0 for a number or null
NumberOrZero(v) == IF Falsy(v) THEN Number(0) ELSE v.num

\* Math.round(priceThb * THB_TO_INR)
RoundedInr(priceThb) == Number((priceThb.n * THB_TO_INR + 50) \div 100)

\* The predicate of trips.filter(...)
isValidTrip(t) ==
  /\ t.Price.kind \notin {"undefined", "null"}
  /\ ~parseFloat(t.Price).nan
  /\ parseFloat(t.Price).n > 0
  /\ ~Falsy(t.DepartureTime)
  /\ ~Falsy(t.ArrivalTime)
  /\ ~Falsy(t.route_url)

\* The records a file may hold.
TripRecord(price, departure, arrival, url, inr) ==
  [Price |-> price, DepartureTime |-> departure, ArrivalTime |-> arrival,
   route_url |-> url, PriceInINR |-> inr]

ImportRecords ==
  <<TripRecord(TextValue(<<"5">>), TextValue(<<"t">>), TextValue(<<"t">>),
               TextValue(<<"u">>), TextValue(<<"1", "2">>)),
    TripRecord(NumValue(Number(7)), TextValue(<<"t">>), TextValue(<<"t">>),
               TextValue(<<"u">>), Missing),
    TripRecord(TextValue(<<"1", ",", "2", "0", "0">>), TextValue(<<"t">>),
               TextValue(<<"t">>), TextValue(<<"u">>), NumValue(Number(3))),
    TripRecord(TextValue(<<"0">>), TextValue(<<"t">>), TextValue(<<"t">>),
               TextValue(<<"u">>), TextValue(<<"1", "2">>)),
    TripRecord(TextValue(<<"-", "5">>), TextValue(<<"t">>), TextValue(<<"t">>),
               TextValue(<<"u">>), TextValue(<<"1", "2">>)),
    TripRecord(Missing, TextValue(<<"t">>), TextValue(<<"t">>),
               TextValue(<<"u">>), TextValue(<<"1", "2">>)),
    TripRecord(Null, TextValue(<<"t">>), TextValue(<<"t">>),
               TextValue(<<"u">>), Missing),
    TripRecord(TextValue(<<"a", "b", "c">>), TextValue(<<"t">>),
               TextValue(<<"t">>), TextValue(<<"u">>), Missing),
    TripRecord(TextValue(<<"5">>), Missing, TextValue(<<>>),
               TextValue(<<"u">>), Missing),
    TripRecord(TextValue(<<"5">>), TextValue(<<"t">>), TextValue(<<"t">>),
               Missing, Missing),
    TripRecord(TextValue(<<" ", "5">>), TextValue(<<"t">>), TextValue(<<"t">>),
               TextValue(<<"u">>), TextValue(<<"-", "5">>))>>

\* The files read: every sequence of at most MaxRecords of these records.
ImportFiles ==
  UNION {[1..n -> 1..Len(ImportRecords)] : n \in 0..MaxRecords}

\* The parameters of one record's row that the checks are about; record is
\* the record's place in the file.
InsertedRow(script, t, place) ==
  [record |-> place,
   route_url |-> t.route_url,
   price |-> NumberOrZero(parsePriceNumber(script, t.Price)),
   price_inr |->
     IF script = "migrateomio"
       THEN RoundedInr(NumberOrZero(parsePriceNumber(script, t.Price)))
       ELSE NumberOrZero(parsePriceNumber(script, t.PriceInINR))]

\* The script has connected and read its file.
ImportInit ==
  /\ program \in {"part_001", "migrateomio"}
  /\ lruCache = EmptyCache
  /\ cacheStats = [hits |-> 0, misses |-> 0]
  /\ now = 1
  /\ \E file \in ImportFiles :
       inflight = [trips |-> [j \in 1..Len(file) |-> ImportRecords[file[j]]],
                   validTrips |-> <<>>, i |-> 0, imported |-> 0,
                   table |-> <<>>, stage |-> "read"]
  /\ calls = 0
  /\ recency = <<>>
  /\ last = [op |-> "init"]

\* const validTrips = trips.filter(...): the places of the records kept.
ImportFilter ==
  /\ program \in {"part_001", "migrateomio"}
  /\ inflight.stage = "read"
  /\ inflight' =
       [inflight EXCEPT
          !.validTrips = SelectSeq([j \in 1..Len(inflight.trips) |-> j],
                                   LAMBDA j : isValidTrip(inflight.trips[j])),
          !.stage = "insert"]
  /\ last' = [op |-> "filtered"]
  /\ UNCHANGED <<program, lruCache, cacheStats, now, calls, recency>>

\* validTrips.slice(i, i + BATCH_SIZE)
BatchAt(validTrips, i) ==
  SubSeq(validTrips, i + 1,
         IF i + BATCH_SIZE < Len(validTrips) THEN i + BATCH_SIZE
         ELSE Len(validTrips))

BatchRows(script, trips, batch) ==
  [j \in 1..Len(batch) |-> InsertedRow(script, trips[batch[j]], batch[j])]

\* One turn of the loop with the INSERT succeeding.
ImportBatch ==
  /\ program \in {"part_001", "migrateomio"}
  /\ inflight.stage = "insert"
  /\ inflight.i < Len(inflight.validTrips)
  /\ inflight' =
       [inflight EXCEPT
          !.table = @ \o BatchRows(program, inflight.trips,
                                   BatchAt(inflight.validTrips, inflight.i)),
          !.imported = @ + Len(BatchAt(inflight.validTrips, inflight.i)),
          !.i = @ + BATCH_SIZE]
  /\ last' = [op |-> "inserted"]
  /\ UNCHANGED <<program, lruCache, cacheStats, now, calls, recency>>

\* The INSERT is refused: the rejection is not caught and ends the script.
ImportBatchFails ==
  /\ program \in {"part_001", "migrateomio"}
  /\ inflight.stage = "insert"
  /\ inflight.i < Len(inflight.validTrips)
  /\ inflight' = [inflight EXCEPT !.stage = "aborted"]
  /\ last' = [op |-> "aborted"]
  /\ UNCHANGED <<program, lruCache, cacheStats, now, calls, recency>>

\* The loop is over: 'Import completed', client.end().
ImportEnd ==
  /\ program \in {"part_001", "migrateomio"}
  /\ inflight.stage = "insert"
  /\ inflight.i >= Len(inflight.validTrips)
  /\ inflight' = [inflight EXCEPT !.stage = "done"]
  /\ last' = [op |-> "completed"]
  /\ UNCHANGED <<program, lruCache, cacheStats, now, calls, recency>>

ImportNext ==
  \/ ImportFilter
  \/ ImportBatch
  \/ ImportBatchFails
  \/ ImportEnd

ImportSpec == ImportInit /\ [][ImportNext]_vars

\* ------------------------------------------- src/migrateomio.js, 1393-1530
\* (src/unnamed/part_000 156-293 is the same text.)  The handlers of
\* /api/trips/from/:origin, /api/trips/to/:destination,
\* /api/trips/route/:from/:to, /api/stats and /api/origins.
RouteEndpoints == {"from", "to", "route", "stats", "origins"}

\* tripCacheMap is read by all five handlers and declared nowhere in the
\* file: evaluating the identifier throws a ReferenceError.
tripCacheMap == [declared |-> FALSE, keys |-> {}]

\* What the framework and the runtime do with a handler whose promise
\* rejects.  Express 4 ignores the promise an async handler returns, and
\* this program installs no unhandledRejection listener and no error
\* middleware: Node either only warns, or (15 and later) exits.  Express 5
\* passes the rejection to its default error handler, which answers 500.
Runtimes == {"express4", "express4-exit", "express5"}

\* The handler up to its first await.  /api/trips/from/:origin reads
\* trips_from_<origin> with lruCache.get and touches tripCacheMap only on a
\* hit; the other four start with tripCacheMap.has('allTrips').  All of it
\* is outside the try block.
BeforeAwait(endpoint, c, stats, t) ==
  LET g == migrateGet(c, stats, <<"trips_from", 0>>, t)
      found == g.ret.kind # "undefined"
  IN IF endpoint = "from"
       THEN [cache |-> g.cache, stats |-> g.stats,
             threw |-> found /\ ~tripCacheMap.declared,
             served |-> found /\ tripCacheMap.declared]
       ELSE [cache |-> c, stats |-> stats,
             threw |-> ~tripCacheMap.declared,
             served |-> tripCacheMap.declared
                          /\ "allTrips" \in tripCacheMap.keys]

\* A request whose handler awaits pool.query (Promise.all of four queries
\* for /api/stats).
Querying(endpoint) ==
  [endpoint |-> endpoint, stage |-> "await", queried |-> TRUE,
   responses |-> 0, status |-> 0]

\* A request answered from the Map before any query.
ServedFromMap(endpoint) ==
  [endpoint |-> endpoint, stage |-> "settled", queried |-> FALSE,
   responses |-> 1, status |-> 200]

\* A request whose handler threw before the try block.
HandlerRejected(runtime, endpoint) ==
  [endpoint |-> endpoint, stage |-> "settled", queried |-> FALSE,
   responses |-> IF runtime = "express5" THEN 1 ELSE 0,
   status |-> IF runtime = "express5" THEN 500 ELSE 0]

\* The process exits: the requests still waiting for the database are
\* dropped with it.
Aborted(requests) ==
  [i \in DOMAIN requests |->
     IF requests[i].stage = "await"
       THEN [requests[i] EXCEPT !.stage = "aborted"]
       ELSE requests[i]]

\* The status the try block sends for the rows the query returned: 404 for
\* no rows on the three trips endpoints, the rows otherwise; /api/stats and
\* /api/origins answer 200 with whatever came back.
RouteStatus(endpoint, rows) ==
  IF endpoint \in {"from", "to", "route"} /\ rows = "none" THEN 404 ELSE 200

RouteInit ==
  /\ program = "routes"
  /\ \E held \in BOOLEAN :
       lruCache = IF held
                    THEN migrateSet(EmptyCache,
                                    [hits |-> 0, misses |-> 0, evictions |-> 0,
                                     currentSize |-> 0, lastEviction |-> 0],
                                    <<"allTrips", 0>>, Small, 1).cache
                    ELSE EmptyCache
  /\ cacheStats = [hits |-> 0, misses |-> 0, evictions |-> 0,
                   currentSize |-> 0, lastEviction |-> 0]
  /\ now = 1
  /\ \E runtime \in Runtimes :
       inflight = [runtime |-> runtime, exited |-> FALSE, requests |-> <<>>]
  /\ calls = 0
  /\ recency = <<>>
  /\ last = [op |-> "init", index |-> 0]

\* A request arrives and its handler runs to the first await, or to the
\* exception.
RouteReceive(endpoint) ==
  /\ program = "routes"
  /\ ~inflight.exited
  /\ calls < MaxRouteCalls
  /\ LET b == BeforeAwait(endpoint, lruCache, cacheStats, now)
         r == IF b.threw THEN HandlerRejected(inflight.runtime, endpoint)
              ELSE IF b.served THEN ServedFromMap(endpoint)
              ELSE Querying(endpoint)
         exits == b.threw /\ inflight.runtime = "express4-exit"
         received == Append(inflight.requests, r)
     IN /\ lruCache' = b.cache
        /\ cacheStats' = b.stats
        /\ inflight' = [inflight EXCEPT
                          !.requests = IF exits THEN Aborted(received)
                                                ELSE received,
                          !.exited = exits]
        /\ last' = [op |-> IF b.threw THEN "throw" ELSE "receive",
                    index |-> Len(received)]
  /\ calls' = calls + 1
  /\ UNCHANGED <<program, now, recency>>

\* The query resolves: the try block sends the rows or the 404.
RouteRows(i, rows) ==
  /\ program = "routes"
  /\ ~inflight.exited
  /\ i \in DOMAIN inflight.requests
  /\ inflight.requests[i].stage = "await"
  /\ inflight' = [inflight EXCEPT
                    !.requests[i] =
                      [@ EXCEPT !.stage = "settled",
                                !.responses = @ + 1,
                                !.status = RouteStatus(inflight.requests[i].endpoint,
                                                      rows)]]
  /\ last' = [op |-> "rows", index |-> i]
  /\ UNCHANGED <<program, lruCache, cacheStats, now, calls, recency>>

\* The query rejects: the catch block sends 500.
RouteFails(i) ==
  /\ program = "routes"
  /\ ~inflight.exited
  /\ i \in DOMAIN inflight.requests
  /\ inflight.requests[i].stage = "await"
  /\ inflight' = [inflight EXCEPT
                    !.requests[i] =
                      [@ EXCEPT !.stage = "settled",
                                !.responses = @ + 1,
                                !.status = 500]]
  /\ last' = [op |-> "fail", index |-> i]
  /\ UNCHANGED <<program, lruCache, cacheStats, now, calls, recency>>

RouteNext ==
  \/ Tick /\ program = "routes"
  \/ \E endpoint \in RouteEndpoints : RouteReceive(endpoint)
  \/ \E i \in 1..MaxRouteCalls : \E rows \in {"some", "none"} : RouteRows(i, rows)
  \/ \E i \in 1..MaxRouteCalls : RouteFails(i)

RouteSpec == RouteInit /\ [][RouteNext]_vars

\* Either server.
Init == ServerInit \/ MigrateInit

Next == ServerNext \/ MigrateNext

Spec == Init /\ [][Next]_vars

\* ------------------------------------------------------------------ claims
\* The step just taken looked key k up / stored under key k / called
\* setInCache on key k.
LookupStep(k) ==
  /\ calls' = calls + 1
  /\ last'.op \in {"lookup", "page"}
  /\ last'.key = k

StoreStep(k) ==
  /\ calls' = calls
  /\ last'.op = "store"
  /\ last'.key = k
  /\ inflight'[k] = inflight[k] - 1

SetCallStep(k) ==
  /\ calls' = calls + 1
  /\ last'.op = "set"
  /\ last'.key = k

Elapsed(k) == now - lruCache.starts[k]

Removed == Held(lruCache) \ Held(lruCache')

\* C1: in server.js, storing a key that is not held while the cache holds
\* MAX_CACHE_ITEMS entries removes exactly one entry, the one whose last
\* access (getFromCache hit or setInCache) is oldest; below the ceiling
\* nothing is removed.
C1_EvictsLeastRecentlyAccessed ==
  [][\A k \in ServerKeys :
       (StoreStep(k) /\ k \notin Held(lruCache)) =>
         IF Len(lruCache.keyList) = MAX_CACHE_ITEMS
           THEN Held(lruCache') = (Held(lruCache) \ {Head(recency)}) \cup {k}
           ELSE Held(lruCache') = Held(lruCache) \cup {k}]_vars

\* C1 witness: a store has just evicted an entry from a full cache in which
\* a key had been promoted by a hit.
C1_Witness ==
  /\ program = "server"
  /\ last.op = "store"
  /\ last.removed # {}
  /\ cacheStats.hits > 0
  /\ Len(lruCache.keyList) = MAX_CACHE_ITEMS

\* C2: in either server the cache never holds more than MAX_CACHE_ITEMS
\* entries (and no key twice), whatever the byte sizes of the entries.
C2_ItemCeiling ==
  /\ Len(lruCache.keyList) <= MAX_CACHE_ITEMS
  /\ Cardinality(Held(lruCache)) = Len(lruCache.keyList)

\* C2 witness: the size-tracking cache is full, and the store just made
\* evicted an entry although the byte budget had room for all of them.
C2_Witness ==
  /\ program = "migrate"
  /\ last.op = "store"
  /\ last.removed # {}
  /\ Len(lruCache.keyList) = MAX_CACHE_ITEMS
  /\ lruCache.calculatedSize + 3 <= MAX_CACHE_SIZE

\* C3: in server.js a lookup of a held key returns the stored value and
\* counts a hit while less than CACHE_DURATION has elapsed since the key was
\* set; once more than CACHE_DURATION has elapsed it returns undefined,
\* counts a miss and purges the entry; the passing of time alone removes
\* nothing.
C3_TtlExpiry ==
  [][/\ \A k \in ServerKeys :
          (LookupStep(k) /\ k \in Held(lruCache)) =>
            /\ Elapsed(k) < CACHE_DURATION =>
                 /\ last'.ret = lruCache.valList[k]
                 /\ cacheStats'.hits = cacheStats.hits + 1
                 /\ cacheStats'.misses = cacheStats.misses
            /\ Elapsed(k) > CACHE_DURATION =>
                 /\ last'.ret = JsUndefined
                 /\ cacheStats'.misses = cacheStats.misses + 1
                 /\ cacheStats'.hits = cacheStats.hits
                 /\ k \notin Held(lruCache')
     /\ now' # now => lruCache' = lruCache]_vars

\* C3 witness: a lookup has just found its entry expired and purged it.
C3_Witness ==
  /\ program = "server"
  /\ last.op = "lookup"
  /\ last.ret = JsUndefined
  /\ last.key \in last.removed
  /\ cacheStats.hits > 0

C5_EveryLookupCounted ==
  [][\A k \in MigrateKeys :
       LookupStep(k) =>
         IF last'.ret # JsUndefined
           THEN /\ cacheStats'.hits = cacheStats.hits + 1
                /\ cacheStats'.misses = cacheStats.misses
           ELSE /\ cacheStats'.misses = cacheStats.misses + 1
                /\ cacheStats'.hits = cacheStats.hits]_vars

C7_ExplicitTtlHonoured ==
  [][\A k \in ServerKeys :
       (LookupStep(k) /\ k \in Held(lruCache) /\ ttlArgument(k) # 0) =>
         /\ Elapsed(k) < ttlArgument(k) => last'.ret # JsUndefined
         /\ Elapsed(k) > ttlArgument(k) => last'.ret = JsUndefined]_vars

\* C8: in migrateomio.js cacheStats.evictions grows by exactly the number
\* of entries a step removes from the cache (never otherwise, never down),
\* cacheStats.lastEviction becomes the time of the step exactly when an
\* entry is removed, and /api/cache-stats reports both values.
C8_EvictionsObserved ==
  [][/\ cacheStats'.evictions = cacheStats.evictions + Cardinality(Removed)
     /\ Removed # {} => cacheStats'.lastEviction = now
     /\ Removed = {} => cacheStats'.lastEviction = cacheStats.lastEviction
     /\ last'.op = "stats" =>
          /\ last'.ret.evictions = cacheStats'.evictions
          /\ last'.ret.lastEviction = cacheStats'.lastEviction]_vars

\* C8 witness: a store has just evicted an entry for lack of room, and the
\* counter and the timestamp show it.
C8_Witness ==
  /\ program = "migrate"
  /\ last.op = "store"
  /\ last.removed # {}
  /\ last.key \notin last.removed
  /\ cacheStats.evictions > 0
  /\ cacheStats.lastEviction = now

\* The step just taken was the lookup of a /api/combined-trips request.
CombinedLookupStep ==
  /\ program = "keys"
  /\ calls' = calls + 1
  /\ last'.op = "lookup"

Asked == FilterSpec(QueryList[last'.query])

\* C9 (as claimed): a /api/combined-trips request whose filter spec equals
\* that of a response held in the cache (the same sets of values, in
\* whatever order they were supplied) is answered from the cache.
C9_PermutationsShareEntry ==
  [][(CombinedLookupStep
        /\ \E k \in Held(lruCache) : lruCache.valList[k].ver = Asked)
       => last'.ret.kind # "undefined"]_vars

\* C10: a /api/combined-trips request answered from the cache is given the
\* response that was built for its own filter spec.
C10_NoCrossSpecHit ==
  [][(CombinedLookupStep /\ last'.ret.kind # "undefined")
       => last'.ret.ver = Asked]_vars

\* C10 witness: a request has just been answered from the cache with the
\* response stored by an earlier request.
C10_Witness ==
  /\ program = "keys"
  /\ last.op = "lookup"
  /\ last.ret.kind # "undefined"
  /\ cacheStats.hits = 1
  /\ cacheStats.misses >= 1

\* C11: keys built by different endpoints of server.js never coincide: a
\* lookup made by one endpoint is never answered with an entry that another
\* endpoint wrote, and every key begins with text only its endpoint uses.
EndpointLookupStep ==
  /\ program = "endpoints"
  /\ last'.op = "lookup"
  /\ calls' = calls + 1

BuiltStep ==
  /\ program = "trips"
  /\ last'.op = "built"
  /\ calls' = calls + 1

Sent == inflight'[Len(inflight')]

SentQuery == TripQueryList[last'.query]

Statements == {Sent.twelveGoQuery, Sent.bookawayQuery}

\* Text v occurs in text t.
Occurs(v, t) ==
  \E i \in 1..(Len(t) - Len(v) + 1) : SubSeq(t, i, i + Len(v) - 1) = v

\* The fixed text a statement may consist of: keywords, the names of the two
\* tables and their columns, placeholders, the sort columns and directions.
SqlWords ==
  {"SELECT *, (SELECT COUNT(*) FROM ", " ", "WHERE ", " WHERE ",
   ") as total_count FROM ", " AND ", " ORDER BY ", " LIMIT ", " OFFSET ",
   "(", " IN (", "))", ",", "$", "DATE(travel_date) = ",
   "travel_date BETWEEN ", "travel_date = CURRENT_DATE",
   "travel_date = CURRENT_DATE - INTERVAL ",
   "travel_date >= CURRENT_DATE - INTERVAL ", "travel_date >= date_trunc(",
   ", CURRENT_DATE)", "'1 day'", "'7 days'", "'14 days'", "'28 days'",
   "'30 days'", "'90 days'", "'month'", "'year'",
   "trips", "bookaway_trips", "origin", "from_location", "destination",
   "to_location", "transport_type", "operator_name",
   "departure_time", "arrival_time", "price_inr", "duration_minutes",
   "ASC", "DESC"}
    \cup {Digits[i] : i \in 1..Len(Digits)}

\* The values a request supplies for its filters, whole and split.
FilterValues(q) ==
  LET whole == {q.origin, q.destination, q.transport_type, q.operator_name,
                q.travel_date, q.start_date, q.end_date, q.timeline}
      parts == SetOf(SplitList(q.origin)) \cup SetOf(SplitList(q.destination))
                 \cup SetOf(SplitList(q.transport_type))
                 \cup SetOf(SplitList(q.operator_name))
  IN (whole \cup parts) \ {Absent, <<>>}

SortValues(q) == {q.sort_by, q.sort_order} \ {Absent, <<>>}

\* C12: the SQL text buildQuery returns contains no filter value of the
\* request; a sort value occurs in it only if it is one of the whitelisted
\* tokens; and the text consists of fixed words only.
C12_NoValueInSqlText ==
  [][BuiltStep =>
       \A st \in Statements :
         /\ \A v \in FilterValues(SentQuery) : ~Occurs(v, st.query)
         /\ \A v \in SortValues(SentQuery) :
              Occurs(v, st.query) => v \in SortColumns \cup SortOrders
         /\ \A i \in 1..Len(st.query) : st.query[i] \in SqlWords]_vars

\* Statements were built for a request whose origin and operator are
\* hostile text, and the text went to the parameter list.
C12_Witness ==
  /\ program = "trips"
  /\ last.op = "built"
  /\ TripQueryList[last.query].origin = HostileText
  /\ \E i \in 1..Len(inflight[Len(inflight)].twelveGoQuery.params) :
       inflight[Len(inflight)].twelveGoQuery.params[i] = TextValue(HostileText)

\* The multi-value fields with the column each has in a table.
FieldColumns(tableName) ==
  <<[values |-> SplitList(SentQuery.origin), column |-> originColumn(tableName)],
    [values |-> SplitList(SentQuery.destination),
     column |-> destinationColumn(tableName)],
    [values |-> SplitList(SentQuery.transport_type), column |-> "transport_type"],
    [values |-> SplitList(SentQuery.operator_name), column |-> "operator_name"]>>

\* The IN conditions on a column among the conditions read from a statement.
InConditions(conditions, column) ==
  SelectSeq(conditions, LAMBDA c : c.op = "in" /\ c.column = column)

FieldBound(conditions, params, field) ==
  LET found == InConditions(conditions, field.column)
      k == Len(field.values)
  IN IF k = 0 THEN found = <<>>
     ELSE /\ Len(found) = 1
          /\ found[1].count = k
          /\ \A i \in 1..k :
               /\ found[1].first + i - 1 \in 1..Len(params)
               /\ params[found[1].first + i - 1] = TextValue(field.values[i])

StatementOf(tableName) ==
  IF tableName = "trips" THEN Sent.twelveGoQuery ELSE Sent.bookawayQuery

\* The number of parameters the date conditions and the page take.
OtherParams(q) ==
  (IF Truthy(q.travel_date) THEN 1 ELSE 0)
    + (IF Truthy(q.start_date) /\ Truthy(q.end_date) THEN 2 ELSE 0) + 2

\* C13: for each multi-value field with k >= 1 values the statement has
\* exactly one IN condition on the field's column, with k placeholders,
\* bound to exactly those k values in their order; a field with no values
\* has no condition and no parameters.
C13_InFragmentPerField ==
  [][BuiltStep =>
       \A tableName \in {"trips", "bookaway_trips"} :
         LET st == StatementOf(tableName)
             read == ReadStatement(st.query)
             fields == FieldColumns(tableName)
         IN /\ read.ok
            /\ read.table = tableName
            /\ \A f \in 1..Len(fields) :
                 /\ FieldBound(read.filtered, st.params, fields[f])
                 /\ FieldBound(read.counted, st.params, fields[f])
            /\ Len(st.params) =
                 Len(fields[1].values) + Len(fields[2].values)
                   + Len(fields[3].values) + Len(fields[4].values)
                   + OtherParams(SentQuery)]_vars

\* Statements were built for a request that selects values in all four
\* fields, several in three of them.
C13_Witness ==
  /\ program = "trips"
  /\ last.op = "built"
  /\ Len(SplitList(TripQueryList[last.query].origin)) = 3
  /\ Len(SplitList(TripQueryList[last.query].destination)) = 1
  /\ Len(SplitList(TripQueryList[last.query].transport_type)) = 2
  /\ Len(SplitList(TripQueryList[last.query].operator_name)) = 3
  /\ Len(inflight[Len(inflight)].bookawayQuery.params) = 11

\* The presets the switch knows.
Presets ==
  {<<"today">>, <<"yesterday">>, <<"last 7 days">>, <<"last 14 days">>,
   <<"last 28 days">>, <<"last 30 days">>, <<"last 90 days">>,
   <<"this month">>, <<"this year">>}

Between(conditions) == SelectSeq(conditions, LAMBDA c : c.op = "between")

Preset(conditions) ==
  SelectSeq(conditions, LAMBDA c : c.op \in {"on", "since", "trunc"})

\* C14: with both start_date and end_date the statement has the BETWEEN
\* condition bound to the two values and no preset condition, whatever the
\* timeline; otherwise it has no BETWEEN condition, and a preset condition
\* exactly if the timeline is one of the presets.
C14_DateModesExclusive ==
  [][BuiltStep =>
       \A st \in Statements :
         LET read == ReadStatement(st.query)
             q == SentQuery
         IN /\ read.ok
            /\ read.counted = read.filtered
            /\ IF Truthy(q.start_date) /\ Truthy(q.end_date)
                 THEN /\ Len(Between(read.filtered)) = 1
                      /\ st.params[Between(read.filtered)[1].first]
                           = TextValue(q.start_date)
                      /\ st.params[Between(read.filtered)[1].count]
                           = TextValue(q.end_date)
                      /\ Preset(read.filtered) = <<>>
                 ELSE /\ Between(read.filtered) = <<>>
                      /\ Len(Preset(read.filtered)) =
                           IF Truthy(q.timeline)
                                /\ toLowerCase(q.timeline) \in Presets
                             THEN 1 ELSE 0]_vars

\* Statements were built for a request that gives both bounds and a preset.
C14_Witness ==
  /\ program = "trips"
  /\ last.op = "built"
  /\ TripQueryList[last.query].start_date = DateText(3)
  /\ TripQueryList[last.query].end_date = DateText(9)
  /\ TripQueryList[last.query].timeline = <<"today">>

\* The request q with its preset replaced by the explicit range of the seven
\* days that start with day s.
ExplicitRange(q, s) ==
  [q EXCEPT !.timeline = Absent, !.start_date = DateText(s),
            !.end_date = DateText(s + 6)]

RowsOfRange(q, s, tableName, today) ==
  Execute(buildQuery(ExplicitRange(q, s), tableName).query,
          buildQuery(ExplicitRange(q, s), tableName).params, today).rows

AsksLastSevenDays(q) ==
  /\ Truthy(q.timeline)
  /\ toLowerCase(q.timeline) = <<"last 7 days">>
  /\ ~(Truthy(q.start_date) /\ Truthy(q.end_date))

\* C15: the rows a provider returns for the preset 'last 7 days' are the
\* rows it returns for an explicit start/end range of seven calendar days
\* (whichever seven days are taken to be the last seven).
C15_PresetMatchesExplicitRange ==
  program = "trips" =>
    \A i \in 1..Len(inflight) :
      LET q == TripQueryList[inflight[i].query]
      IN (AsksLastSevenDays(q) /\ inflight[i].result12go.state = "rows") =>
           \E s \in 1..(Len(TwoDigits) - 6) :
             inflight[i].result12go.rows
               = RowsOfRange(q, s, "trips", CurrentDate(now))

\* C16 as stated: a sort column outside the whitelist gives the default
\* sort, departure_time ascending; a direction outside {ASC, DESC} gives
\* ASC; the ORDER BY clause holds whitelisted tokens only and the request is
\* not refused.
C16_FallsBackToDefaultSort ==
  [][BuiltStep =>
       \A st \in Statements :
         LET read == ReadStatement(st.query)
             sort_by == Default(SentQuery.sort_by, <<"departure_time">>)
             sort_order == Default(SentQuery.sort_order, <<"ASC">>)
         IN /\ read.ok
            /\ sort_by \notin SortColumns =>
                 read.column = "departure_time" /\ read.direction = "ASC"
            /\ sort_order \notin SortOrders => read.direction = "ASC"]_vars

\* C16 as amended: column and direction fall back separately.  A column
\* outside the whitelist gives departure_time, in the direction asked for;
\* the direction is compared in upper case, and anything but ASC or DESC
\* gives ASC; whitelisted values are used as given; every answer is 200.
C16_SortFallsBackPerToken ==
  [][/\ BuiltStep =>
          \A st \in Statements :
            LET read == ReadStatement(st.query)
                sort_by == Default(SentQuery.sort_by, <<"departure_time">>)
                sort_order == Default(SentQuery.sort_order, <<"ASC">>)
            IN /\ read.ok
               /\ <<read.column>> =
                    IF sort_by \in SortColumns THEN sort_by
                    ELSE <<"departure_time">>
               /\ <<read.direction>> =
                    IF toUpperCase(sort_order) \in SortOrders
                      THEN toUpperCase(sort_order)
                      ELSE <<"ASC">>
     /\ (program = "trips" /\ last'.op \in {"sent", "cached"})
          => last'.status = 200]_vars

\* Statements were built for the request that asks for the hostile column
\* in descending order, and they order by departure_time.
C16_Witness ==
  /\ program = "trips"
  /\ last.op = "built"
  /\ TripQueryList[last.query].sort_by = HostileColumn
  /\ TripQueryList[last.query].sort_order = <<"DESC">>
  /\ Occurs(<<" ORDER BY ", "departure_time", " ", "DESC">>,
            inflight[Len(inflight)].twelveGoQuery.query)

\* The page and limit a request asks for, read as numbers.
AskedPage(q) == parseInt(Default(q.page, <<"1">>))

AskedLimit(q) == parseInt(Default(q.limit, <<"5", "0">>))

Clamped(lo, n, hi) == IF n < lo THEN lo ELSE IF n > hi THEN hi ELSE n

\* Page p and limit l are what the request's page and limit clamp to.
EffectivePaging(q, p, l) ==
  /\ p >= 1
  /\ l \in 1..100
  /\ ~AskedPage(q).nan => p = Clamped(1, AskedPage(q).n, AskedPage(q).n + 1)
  /\ ~AskedLimit(q).nan => l = Clamped(1, AskedLimit(q).n, 100)

\* C17: the effective page is max(1, page), the effective limit is
\* min(100, max(1, limit)), the offset bound into both statements is
\* (page - 1) * limit and not negative, and the same page and limit are in
\* the cache key, in the parameters and in the pagination of the response.
C17_PaginationClamped ==
  [][/\ BuiltStep =>
          \E p \in 1..1000 : \E l \in 1..100 :
            /\ EffectivePaging(SentQuery, p, l)
            /\ \A st \in Statements :
                 /\ st.params[Len(st.params) - 1] = NumValue(Number(l))
                 /\ st.params[Len(st.params)] = NumValue(Number((p - 1) * l))
            /\ Occurs(<<"\"", "pageNum", "\"", ":">> \o Decimal(p)
                        \o <<",", "\"", "limitNum", "\"", ":">> \o Decimal(l)
                        \o <<",">>, Sent.key)
     /\ (program = "trips" /\ last'.op = "sent") =>
          \E p \in 1..1000 : \E l \in 1..100 :
            /\ EffectivePaging(TripQueryList[last'.query], p, l)
            /\ last'.ret.pagination.page = NumValue(Number(p))
            /\ last'.ret.pagination.limit = NumValue(Number(l))]_vars

\* A response built from the two providers' results has just been sent.
SentStep == program = "trips" /\ last'.op = "sent"

\* The total_count a provider reported: that of its first row, 0 if it
\* returned no row or failed.
Reported(result) ==
  IF result.rows = <<>> THEN 0 ELSE parseInt(result.rows[1].total_count).n

RowsSent(result) ==
  [i \in 1..Len(result.rows) |-> WithoutTotalCount(result.rows[i])]

\* C18: when one provider's query fails and the other succeeds the response
\* is a success, its data are exactly the rows of the succeeding provider,
\* and its total is that provider's total count.
C18_OneProviderFails ==
  [][SentStep =>
       \A pair \in {<<last'.result12go, last'.resultBookaway>>,
                    <<last'.resultBookaway, last'.result12go>>} :
         (pair[1].state = "rows" /\ pair[2].state = "failed") =>
           /\ last'.status = 200
           /\ last'.success = "true"
           /\ last'.ret.data = RowsSent(pair[1])
           /\ ToNumber(last'.ret.pagination.total) = Number(Reported(pair[1]))]_vars

\* C19: the total of the response is the sum of the two providers' total
\* counts, and totalPages is ceil(total / limit).
C19_TotalIsSum ==
  [][SentStep =>
       LET sum == Reported(last'.result12go) + Reported(last'.resultBookaway)
           limit == last'.ret.pagination.limit.num
       IN /\ ToNumber(last'.ret.pagination.total) = Number(sum)
          /\ ~limit.nan =>
               last'.ret.pagination.totalPages
                 = NumValue(Number((sum + limit.n - 1) \div limit.n))]_vars

\* C20: the response is a failure exactly when both providers' queries
\* failed.
C20_FailureIffAllFail ==
  [][SentStep =>
       ((last'.status # 200 \/ last'.success # "true")
          <=> (last'.result12go.state = "failed"
                 /\ last'.resultBookaway.state = "failed"))]_vars


\* Key k has just been written to the cache: it is newly held, or held with
\* another value.
Written(k) ==
  /\ k \in Held(lruCache')
  /\ k \in Held(lruCache) => lruCache'.valList[k] # lruCache.valList[k]

\* C21: a combined-trips request that misses the cache issues its two
\* provider queries together, before either is awaited; its response is
\* sent, and the cache written, only in a step in which both queries of that
\* request have resolved or failed, and the request is then no longer in
\* flight.
C21_RespondsAfterBothSettle ==
  [][program = "trips" =>
       /\ BuiltStep =>
            Sent.result12go = Pending /\ Sent.resultBookaway = Pending
       /\ SentStep =>
            /\ last'.result12go.state \in {"rows", "failed"}
            /\ last'.resultBookaway.state \in {"rows", "failed"}
            /\ \E i \in 1..Len(inflight) :
                 /\ inflight[i].query = last'.query
                 /\ inflight[i].result12go = last'.result12go
                 /\ inflight[i].resultBookaway = last'.resultBookaway
                 /\ inflight' = SubSeq(inflight, 1, i - 1)
                                  \o SubSeq(inflight, i + 1, Len(inflight))
       /\ \A k \in Held(lruCache') : Written(k) => SentStep /\ k = last'.key]_vars

\* C21 witness: a response has been sent for a request of which one query
\* failed and the other returned rows.
C21_Witness ==
  /\ program = "trips"
  /\ last.op = "sent"
  /\ last.result12go.state = "failed"
  /\ last.resultBookaway.state = "rows"
  /\ last.key \in Held(lruCache)


\* C22: a cache entry is written only by a request that missed the cache and
\* whose fetch succeeded: a combined-trips request whose provider queries
\* failed leaves the cache as it was.
C22_FailedFetchNotCached ==
  [][program = "trips" =>
       /\ \A k \in Held(lruCache') : Written(k) => SentStep /\ k = last'.key
       /\ (SentStep /\ last'.result12go.state = "failed"
                    /\ last'.resultBookaway.state = "failed")
            => lruCache' = lruCache]_vars


\* A request with malformed or out-of-whitelist parameters: a provider
\* other than 12go and bookaway, a search without a whitelisted field or
\* without q, a date filter with an unknown range or a custom range lacking
\* a bound.
Malformed(r) ==
  \/ /\ r.endpoint \in {"trips", "search", "filter-date"}
     /\ r.provider \notin {<<"12go">>, <<"bookaway">>}
  \/ /\ r.endpoint = "search"
     /\ \/ r.field \notin validFields
        \/ r.q \in {Absent, <<>>}
  \/ /\ r.endpoint = "filter-date"
     /\ \/ r.range = Absent
        \/ toLowerCase(r.range) \notin DateRanges
        \/ /\ toLowerCase(r.range) = <<"custom">>
           /\ Absent \in {r.startDate, r.endDate}

\* Request i has just been received and handled up to its first await.
ReceivedStep(i) ==
  /\ program = "endpoints"
  /\ calls' = calls + 1
  /\ last'.query = i

\* C23: a malformed request is answered 400 with a message, and neither
\* reads nor writes the cache, nor changes the counters, nor sends a query.
C23_MalformedRejected ==
  [][\A i \in Requests :
       (ReceivedStep(i) /\ Malformed(EndpointRequests[i])) =>
         /\ last'.op = "reject"
         /\ last'.status = 400
         /\ last'.error # ""
         /\ lruCache' = lruCache
         /\ cacheStats' = cacheStats
         /\ inflight' = inflight]_vars


\* The cache and the counters are now as call result r leaves them.
Applied(r) == lruCache' = r.cache /\ cacheStats' = r.stats

\* The step is one whole call of getFromCache or setInCache, for the key of
\* the request handled, on the cache and counters as the previous step left
\* them, or leaves both alone.
OneCallApplied ==
  \/ UNCHANGED <<lruCache, cacheStats>>
  \/ Applied(getFromCache(lruCache, cacheStats, last'.key, now))
  \/ \E v \in Responses \cup {EmptyCombined} :
       Applied(setInCache(lruCache, cacheStats, last'.key, v, 0, now))

\* C24: with requests in flight concurrently, each getFromCache and
\* setInCache call takes effect as a whole: hits + misses is the number of
\* getFromCache calls completed, the order of the keys is the order of
\* their last accesses, no key is held twice or beyond the item ceiling,
\* the item count a store records is the number of entries held, and every
\* step applies one call to the state the previous step left.
C24_CacheCallsAtomic ==
  [][program = "server" =>
       /\ cacheStats'.hits + cacheStats'.misses = calls'
       /\ lruCache'.keyList = recency'
       /\ Len(lruCache'.keyList) = Cardinality(Held(lruCache'))
       /\ Len(lruCache'.keyList) <= MAX_CACHE_ITEMS
       /\ last'.op = "store" =>
            cacheStats'.currentSize = Len(lruCache'.keyList)
       /\ OneCallApplied]_vars

\* C24 witness: a response has been stored while another request was still
\* awaiting its query, after lookups that hit and lookups that missed, with
\* the cache full.
C24_Witness ==
  /\ program = "server"
  /\ last.op = "store"
  /\ Awaiting >= 1
  /\ cacheStats.hits >= 1
  /\ cacheStats.misses >= 2
  /\ Len(lruCache.keyList) = MAX_CACHE_ITEMS


\* C25: on the single-provider server the byte usage kept in cacheStats is
\* the sum of the sizes of the entries the cache holds, and is not negative.
C25_CurrentSizeIsSumOfSizes ==
  program = "migrate" =>
    /\ cacheStats.currentSize = Total(lruCache.sizes, Held(lruCache))
    /\ cacheStats.currentSize >= 0


\* Required-field validation in the words of the data model: a price that
\* parses to a number greater than 0, a departure time, an arrival time and
\* a route URL.
PassesValidation(t) ==
  /\ ~parseFloat(t.Price).nan
  /\ parseFloat(t.Price).n > 0
  /\ t.DepartureTime \notin {Missing, Null, TextValue(<<>>)}
  /\ t.ArrivalTime \notin {Missing, Null, TextValue(<<>>)}
  /\ t.route_url \notin {Missing, Null, TextValue(<<>>)}

\* How many rows of the table come from the record at the place given.
TimesInserted(place) ==
  Cardinality({j \in 1..Len(inflight.table) : inflight.table[j].record = place})

\* C26: every row inserted by an import script comes from a record that
\* passed required-field validation; no record is inserted twice; when the
\* script completes every record that passed is inserted exactly once; and
\* every inserted price and price_inr is non-negative.
C26_OnlyValidRecordsInserted ==
  program \in {"part_001", "migrateomio"} =>
    /\ \A j \in 1..Len(inflight.table) :
         /\ PassesValidation(inflight.trips[inflight.table[j].record])
         /\ ~inflight.table[j].price.nan /\ inflight.table[j].price.n >= 0
         /\ ~inflight.table[j].price_inr.nan /\ inflight.table[j].price_inr.n >= 0
    /\ \A place \in 1..Len(inflight.trips) :
         /\ TimesInserted(place) <= 1
         /\ (inflight.stage = "done" /\ PassesValidation(inflight.trips[place]))
              => TimesInserted(place) = 1


\* C27: a request whose key is held (stored by an earlier request that
\* missed and fetched, and not evicted since) and arrives before the
\* entry's ttl has elapsed is answered with the stored value; it sends no
\* query and writes nothing: the entries, their values, start times and
\* ttls stay as they were, the hit counter goes up by one, the miss counter
\* stays, and the key becomes the most recently used.
C27_ServedFromCacheWithinTtl ==
  [][\A k \in ServerKeys :
       (program = "server" /\ LookupStep(k) /\ k \in Held(lruCache)
          /\ Elapsed(k) < lruCache.ttls[k]) =>
         /\ last'.ret = lruCache.valList[k]
         /\ inflight' = inflight
         /\ lruCache'.valList = lruCache.valList
         /\ lruCache'.starts = lruCache.starts
         /\ lruCache'.ttls = lruCache.ttls
         /\ lruCache'.keyList = Append(SeqWithout(lruCache.keyList, k), k)
         /\ cacheStats' = [cacheStats EXCEPT !.hits = @ + 1]]_vars

\* C27 witness: a request has been answered from the cache some time after
\* its key was stored, while another key was held and a query of another
\* request was outstanding; its key is now the most recently used.
C27_Witness ==
  /\ program = "server"
  /\ last.op = "lookup"
  /\ last.ret.kind # "undefined"
  /\ now > lruCache.starts[last.key]
  /\ Len(lruCache.keyList) = 2
  /\ lruCache.keyList[2] = last.key
  /\ lruCache.starts[lruCache.keyList[1]] > lruCache.starts[last.key]
  /\ Awaiting >= 1


\* C28: a request answered from the cache right after the request that
\* missed and stored the entry under its key gets the body that request
\* got.
C28_HitBodySameAsMissBody ==
  [][(EndpointLookupStep /\ last.op = "store" /\ last'.key = last.key
        /\ last'.ret.kind # "undefined")
       => last'.body = last.body]_vars


\* The numbers of the placeholders that occur in a statement text.
PlaceholderNumbers(text) ==
  {parseInt(SubSeq(text, i + 1, i + DigitsAhead(AfterTokens(text, i)))).n :
     i \in {j \in 1..Len(text) : text[j] = "$"}}

\* The multi-value fields of request q with the column each has in a table.
FieldsOf(q, tableName) ==
  <<[values |-> SplitList(q.origin),
     column |-> IF tableName = "trips" THEN "origin" ELSE "from_location"],
    [values |-> SplitList(q.destination),
     column |-> IF tableName = "trips" THEN "destination" ELSE "to_location"],
    [values |-> SplitList(q.transport_type), column |-> "transport_type"],
    [values |-> SplitList(q.operator_name), column |-> "operator_name"]>>

\* The travel date of q, given as DD-MM-YYYY, is bound as YYYY-MM-DD to
\* the one condition on the date; without a travel date there is none.
TravelDateBound(found, params, q) ==
  IF Truthy(q.travel_date)
    THEN /\ Len(found) = 1
         /\ found[1].first \in 1..Len(params)
         /\ \A d \in 1..16 :
              q.travel_date = TravelDateText(d) =>
                params[found[1].first] = TextValue(DateText(d))
    ELSE found = <<>>

\* The two bounds of q are bound, in their order, to the one BETWEEN
\* condition; unless both are given there is none.
RangeBound(found, params, q) ==
  IF Truthy(q.start_date) /\ Truthy(q.end_date)
    THEN /\ Len(found) = 1
         /\ found[1].first \in 1..Len(params)
         /\ found[1].count \in 1..Len(params)
         /\ params[found[1].first] = TextValue(q.start_date)
         /\ params[found[1].count] = TextValue(q.end_date)
    ELSE found = <<>>

\* The page and the page size request q asks for.
ExpectedPage(q) == IF q.page = <<"2">> THEN 2 ELSE 1

ExpectedLimit(q) == IF q.limit = <<"5">> THEN 5 ELSE 50

\* Statement st, read as read, is what request q asks of the table.
BoundAsIntended(q, tableName, st, read) ==
  /\ PlaceholderNumbers(st.query) = 1..Len(st.params)
  /\ read.ok
  /\ read.table = tableName
  /\ read.counted = read.filtered
  /\ \A f \in 1..4 :
       FieldBound(read.filtered, st.params, FieldsOf(q, tableName)[f])
  /\ TravelDateBound(SelectSeq(read.filtered, LAMBDA c : c.op = "date"),
                     st.params, q)
  /\ RangeBound(Between(read.filtered), st.params, q)
  /\ read.limit = Len(st.params) - 1
  /\ read.offset = Len(st.params)
  /\ st.params[read.limit] = NumValue(Number(ExpectedLimit(q)))
  /\ st.params[read.offset] =
       NumValue(Number((ExpectedPage(q) - 1) * ExpectedLimit(q)))

\* C29: for every combination of filters given and left out, and for both
\* tables, the statement buildQuery returns uses exactly the placeholders
\* $1..$n, n the number of its parameters; each condition's placeholders are
\* bound to the values of its own filter; LIMIT and OFFSET are bound to the
\* last two parameters, the limit and then the offset.
C29_PlaceholdersBound ==
  (program = "buildQuery" /\ inflight.tableName # "") =>
    BoundAsIntended(inflight.query, inflight.tableName, inflight.statement,
                    ReadStatement(inflight.statement.query))

\* C29 witness: the statement for bookaway_trips has been built for a
\* request that gives every filter, a preset included, and a later page.
C29_Witness ==
  /\ program = "buildQuery"
  /\ inflight.tableName = "bookaway_trips"
  /\ Len(inflight.statement.params) = 11
  /\ inflight.query.timeline = <<"today">>
  /\ inflight.query.page = <<"2">>

\* C30: every request to the per-origin, per-destination, per-route, stats
\* and origins endpoints receives exactly one response (rows, 404 or 500),
\* sent after the handler found tripCacheMap empty and went on to the
\* database query; none is left without a response.  No action changes a
\* request once its handler has stopped waiting for the database, so a
\* request it holds for is answered for good and one it fails for never is.
C30_EveryRequestAnswered ==
  program = "routes" =>
    \A i \in DOMAIN inflight.requests :
      inflight.requests[i].stage # "await" =>
        /\ inflight.requests[i].queried
        /\ inflight.requests[i].responses = 1
        /\ inflight.requests[i].status \in {200, 404, 500}

====
